---------------------------- MODULE Spec2Model ----------------------------
(***************************************************************************)
(* The alpha-beta move filter of AlphaGo-all/code/AlphaBetaActionFilter.py: *)
(* forbidden-move checker, win detection, pattern evaluation, move ordering *)
(* and the negamax search with its place/undo backtracking on shared lists. *)
(*                                                                         *)
(* A point (x, y) is the tuple <<x, y>>; a Python list is a sequence.       *)
(* A score is the pair <<q, r>> that stands for q + r/10 with r in 0..9:    *)
(* evaluation returns my_score - enemy_score * ratio * 0.1, a whole number *)
(* of tenths for an integer ratio.                                         *)
(***************************************************************************)
EXTENDS Integers, Sequences, FiniteSets, TLC

VARIABLES
    heap,   \* the list objects: name -> sequence of points
    stack,  \* the negamax frames, innermost last
    root,   \* the locals of alpha_beta_search and its position in the loop
    ret,    \* the last return of negamax: value, frame, lists on entry
    fn      \* one application of a pure function: its inputs and its result

vars == <<heap, stack, root, ret, fn>>

----------------------------------------------------------------------------
(* Program constants.                                                      *)

COLUMN == 8
ROW == 8
WINDOW == 99999999

----------------------------------------------------------------------------
(* Lists.                                                                  *)

In(pt, lst) == \E k \in DOMAIN lst : lst[k] = pt

Range(lst) == {lst[k] : k \in DOMAIN lst}

NoDup(lst) == \A i, j \in DOMAIN lst : lst[i] = lst[j] => i = j

RECURSIVE SumTo(_, _)
SumTo(F, k) == IF k = 0 THEN 0 ELSE F[k] + SumTo(F, k - 1)

\* F(v), with v worked out once.
Once(F(_), v) == CHOOSE r \in {F(x) : x \in {v}} : TRUE

Max(a, b) == IF a >= b THEN a ELSE b

Min(a, b) == IF a <= b THEN a ELSE b

Board == {<<x, y>> : x \in 0..(COLUMN - 1), y \in 0..(ROW - 1)}

----------------------------------------------------------------------------
(* Scores: <<q, r>> is q + r/10.                                           *)

whole(q) == <<q, 0>>

v_neg(v) == IF v[2] = 0 THEN <<-v[1], 0>> ELSE <<-v[1] - 1, 10 - v[2]>>

v_lt(v, w) == v[1] < w[1] \/ (v[1] = w[1] /\ v[2] < w[2])

v_le(v, w) == v = w \/ v_lt(v, w)

v_gt(v, w) == v_lt(w, v)

v_ge(v, w) == v_le(w, v)

\* a - e/10 for integers a and e >= 0.
minus_tenths(a, e) == <<a - ((e + 9) \div 10), (10 - (e % 10)) % 10>>

----------------------------------------------------------------------------
(* Forbidden-move checker.                                                 *)

directions == << <<1, 0>>, <<0, 1>>, <<1, 1>>, <<1, -1>> >>

\* The inner while loop of count_continuous: the own stones met walking from
\* pt by steps of (sx, sy) until the first cell that holds none.
RECURSIVE walk(_, _, _, _)
walk(pt, sx, sy, my_list) ==
    LET nxt == <<pt[1] + sx, pt[2] + sy>>
    IN  IF In(nxt, my_list) THEN 1 + walk(nxt, sx, sy, my_list) ELSE 0

count_dir(move, my_list, k) ==
    1 + walk(move, directions[k][1], directions[k][2], my_list)
      + walk(move, -directions[k][1], -directions[k][2], my_list)

count_continuous(move, my_list) ==
    LET c == [k \in 1..4 |-> count_dir(move, my_list, k)]
    IN  Max(Max(Max(Max(1, c[1]), c[2]), c[3]), c[4])

\* line[j], j in 1..9, is Python's line[j-1]: the cell at offset j-5.
live_line(move, my_list, enemy_list, k) ==
    [j \in 1..9 |->
        LET pt == <<move[1] + directions[k][1] * (j - 5),
                    move[2] + directions[k][2] * (j - 5)>>
        IN  IF pt = move THEN 1
            ELSE IF In(pt, my_list) THEN 1
            ELSE IF In(pt, enemy_list) THEN 2
            ELSE 0]

\* window = line[i:i+n+2] for i in range(len(line)-n-1).
live_windows(line, n) ==
    Cardinality({i \in 0..(9 - n - 2) :
        /\ line[i + 1] = 0
        /\ line[i + n + 2] = 0
        /\ \A j \in (i + 2)..(i + n + 1) : line[j] = 1})

count_live_n(move, my_list, enemy_list, n) ==
    LET c == [k \in 1..4 |-> live_windows(live_line(move, my_list, enemy_list, k), n)]
    IN  SumTo(c, 4)

\* is_forbidden with a run of 6 let through (overline from 7 on).
is_forbidden_no_overline(move, my_list, enemy_list) ==
    LET temp_list == Append(my_list, move)
    IN  \/ count_continuous(move, temp_list) >= 7
        \/ count_live_n(move, temp_list, enemy_list, 3) >= 2
        \/ count_live_n(move, temp_list, enemy_list, 4) >= 2

is_forbidden(move, my_list, enemy_list) ==
    LET temp_list == Append(my_list, move)
        live3 == count_live_n(move, temp_list, enemy_list, 3)
        live4 == count_live_n(move, temp_list, enemy_list, 4)
    IN  IF count_continuous(move, temp_list) >= 6 THEN TRUE
        ELSE IF live3 >= 2 THEN TRUE
        ELSE IF live4 >= 2 THEN TRUE
        ELSE FALSE

\* The filter applied to the wrong player: when the counts differ.
root_excluded_unequal(move, list1, list2) ==
    IF Len(list1) # Len(list2) THEN is_forbidden(move, list1, list2) ELSE FALSE

\* Lines 106-108 of alpha_beta_search: a candidate is left out only when the
\* stone counts are equal (the mover is the first player) and it is forbidden.
root_excluded(move, list1, list2) ==
    IF Len(list1) = Len(list2) THEN is_forbidden(move, list1, list2) ELSE FALSE

----------------------------------------------------------------------------
(* Win detection.                                                          *)

\* game_win with the falling diagonal started from row 5 on only.
game_win_short_anti(lst) ==
    \E m \in 0..(COLUMN - 1), n \in 0..(ROW - 1) :
        \/ n < ROW - 4 /\ \A k \in 0..4 : In(<<m, n + k>>, lst)
        \/ m < ROW - 4 /\ \A k \in 0..4 : In(<<m + k, n>>, lst)
        \/ m < ROW - 4 /\ n < ROW - 4 /\ \A k \in 0..4 : In(<<m + k, n + k>>, lst)
        \/ m < ROW - 4 /\ n > 4 /\ \A k \in 0..4 : In(<<m + k, n - k>>, lst)

game_win(lst) ==
    \E m \in 0..(COLUMN - 1), n \in 0..(ROW - 1) :
        \/ n < ROW - 4 /\ \A k \in 0..4 : In(<<m, n + k>>, lst)
        \/ m < ROW - 4 /\ \A k \in 0..4 : In(<<m + k, n>>, lst)
        \/ m < ROW - 4 /\ n < ROW - 4 /\ \A k \in 0..4 : In(<<m + k, n + k>>, lst)
        \/ m < ROW - 4 /\ n > 3 /\ \A k \in 0..4 : In(<<m + k, n - k>>, lst)

----------------------------------------------------------------------------
(* Pattern evaluation.                                                     *)

shape_score == <<
    <<50, <<0, 1, 1, 0, 0>> >>,
    <<50, <<0, 0, 1, 1, 0>> >>,
    <<200, <<1, 1, 0, 1, 0>> >>,
    <<500, <<0, 0, 1, 1, 1>> >>,
    <<500, <<1, 1, 1, 0, 0>> >>,
    <<5000, <<0, 1, 1, 1, 0>> >>,
    <<5000, <<0, 1, 0, 1, 1, 0>> >>,
    <<5000, <<0, 1, 1, 0, 1, 0>> >>,
    <<5000, <<1, 1, 1, 0, 1>> >>,
    <<5000, <<1, 1, 0, 1, 1>> >>,
    <<5000, <<1, 0, 1, 1, 1>> >>,
    <<5000, <<1, 1, 1, 1, 0>> >>,
    <<5000, <<0, 1, 1, 1, 1>> >>,
    <<50000, <<0, 1, 1, 1, 1, 0>> >>,
    <<99999999, <<1, 1, 1, 1, 1>> >> >>

\* The table as a lookup from template to score, one per template length
\* (no template occurs twice in the table).
shape_lookup(len) ==
    [sh \in {shape_score[k][2] : k \in {j \in DOMAIN shape_score :
                                            Len(shape_score[j][2]) = len}} |->
        shape_score[CHOOSE k \in DOMAIN shape_score : shape_score[k][2] = sh][1]]

score5 == shape_lookup(5)

score6 == shape_lookup(6)

\* Lines 206-211: the marker of one cell.
cell_code(pt, enemy_list, my_list) ==
    IF In(pt, enemy_list) THEN 2
    ELSE IF In(pt, my_list) THEN 1
    ELSE 0

\* The markers of the eleven cells at offsets -5..5 from (m, n) along
\* (dx, dy): every pos of the offset loop is a slice of it.
window_line(m, n, dx, dy, enemy_list, my_list) ==
    << cell_code(<<m - 5 * dx, n - 5 * dy>>, enemy_list, my_list),
       cell_code(<<m - 4 * dx, n - 4 * dy>>, enemy_list, my_list),
       cell_code(<<m - 3 * dx, n - 3 * dy>>, enemy_list, my_list),
       cell_code(<<m - 2 * dx, n - 2 * dy>>, enemy_list, my_list),
       cell_code(<<m - dx, n - dy>>, enemy_list, my_list),
       cell_code(<<m, n>>, enemy_list, my_list),
       cell_code(<<m + dx, n + dy>>, enemy_list, my_list),
       cell_code(<<m + 2 * dx, n + 2 * dy>>, enemy_list, my_list),
       cell_code(<<m + 3 * dx, n + 3 * dy>>, enemy_list, my_list),
       cell_code(<<m + 4 * dx, n + 4 * dy>>, enemy_list, my_list),
       cell_code(<<m + 5 * dx, n + 5 * dy>>, enemy_list, my_list) >>

\* pos of one offset: the cells at offset .. offset + 5.
window_pos(line, offset) == SubSeq(line, offset + 6, offset + 11)

\* The cells recorded for a match at this offset: always the first five.
window_cells(m, n, dx, dy, offset) ==
    << <<m + offset * dx, n + offset * dy>>,
       <<m + (1 + offset) * dx, n + (1 + offset) * dy>>,
       <<m + (2 + offset) * dx, n + (2 + offset) * dy>>,
       <<m + (3 + offset) * dx, n + (3 + offset) * dy>>,
       <<m + (4 + offset) * dx, n + (4 + offset) * dy>> >>

\* The table scan of one offset against tmp_shap5 = pos[:5] and tmp_shap6 =
\* pos[:6].  The code keeps a running best that only a strictly greater
\* score replaces, so what one offset can contribute is the greatest score
\* among the entries that match (0 if none does).
offset_score(line, offset) ==
    LET tmp_shap6 == window_pos(line, offset)
        tmp_shap5 == SubSeq(tmp_shap6, 1, 5)
    IN  Max(IF tmp_shap5 \in DOMAIN score5 THEN score5[tmp_shap5] ELSE 0,
            IF tmp_shap6 \in DOMAIN score6 THEN score6[tmp_shap6] ELSE 0)

\* The running best replaced also by an equal score: the last offset of
\* the greatest score kept.
scan_offsets_last(line) ==
    LET found == {<<o, offset_score(line, o)>> : o \in -5..0}
        best == CHOOSE x \in found :
                    \A y \in found : y[2] < x[2] \/ (y[2] = x[2] /\ x[1] >= y[1])
    IN  IF best[2] = 0 THEN <<1, 0>> ELSE best

\* The loop over offset in range(-5, 1): max_score_shape as <<offset, score>>,
\* <<1, 0>> standing for (0, None).  A later offset replaces the running best
\* only with a strictly greater score, so the first offset of the greatest
\* score is the one kept.
scan_offsets(line) ==
    LET found == {<<o, offset_score(line, o)>> : o \in -5..0}
        best == CHOOSE x \in found :
                    \A y \in found : y[2] < x[2] \/ (y[2] = x[2] /\ x[1] <= y[1])
    IN  IF best[2] = 0 THEN <<1, 0>> ELSE best

shared_cells(c1, c2) ==
    Cardinality({<<a, b>> \in (1..5) \X (1..5) : c1[a] = c2[b]})

\* The nested loops of lines 223-227: one addition per equal pair (pt1, pt2).
combo_bonus(score_all_arr, shape) ==
    LET add == [k \in DOMAIN score_all_arr |->
                   IF shape.s > 10 /\ score_all_arr[k].s > 10
                   THEN shared_cells(score_all_arr[k].cells, shape.cells)
                            * (score_all_arr[k].s + shape.s)
                   ELSE 0]
    IN  SumTo(add, Len(score_all_arr))

\* Lines 198-201.
already_scored(m, n, dx, dy, score_all_arr) ==
    \E k \in DOMAIN score_all_arr :
        /\ score_all_arr[k].d = <<dx, dy>>
        /\ In(<<m, n>>, score_all_arr[k].cells)

\* Lines 222-229, max_score_shape being <<offset, score>>.
credit(m, n, dx, dy, score_all_arr, max_score_shape) ==
    IF max_score_shape[1] = 1 THEN [score |-> 0, arr |-> score_all_arr]
    ELSE LET shape == [s |-> max_score_shape[2],
                       cells |-> window_cells(m, n, dx, dy, max_score_shape[1]),
                       d |-> <<dx, dy>>]
         IN  [score |-> combo_bonus(score_all_arr, shape) + shape.s,
              arr |-> Append(score_all_arr, shape)]

\* Returns the score and the accumulator as the call leaves it.
cal_score(m, n, x_decrict, y_derice, enemy_list, my_list, score_all_arr) ==
    IF already_scored(m, n, x_decrict, y_derice, score_all_arr)
    THEN [score |-> 0, arr |-> score_all_arr]
    ELSE LET with(best) == credit(m, n, x_decrict, y_derice, score_all_arr, best)
         IN  Once(with, scan_offsets(window_line(m, n, x_decrict, y_derice,
                                                 enemy_list, my_list)))

eval_directions == << <<0, 1>>, <<1, 0>>, <<1, 1>>, <<-1, 1>> >>

\* The loop over the stones of one side, four cal_score calls per stone;
\* step counts the calls made so far, acc is (total, score_all_arr).
RECURSIVE side_total(_, _, _, _)
side_total(stones, others, step, acc) ==
    IF step >= 4 * Len(stones) THEN acc
    ELSE LET pt == stones[(step \div 4) + 1]
             dir == eval_directions[(step % 4) + 1]
             rest(r) == side_total(stones, others, step + 1,
                                   [score |-> acc.score + r.score, arr |-> r.arr])
         IN  Once(rest, cal_score(pt[1], pt[2], dir[1], dir[2], others, stones, acc.arr))

side_score(stones, others) ==
    side_total(stones, others, 0, [score |-> 0, arr |-> <<>>]).score

\* my_score - enemy_score * ratio * 0.1
evaluation(my_list, enemy_list, ratio) ==
    minus_tenths(side_score(my_list, enemy_list),
                 side_score(enemy_list, my_list) * ratio)

----------------------------------------------------------------------------
(* Move ordering and adjacency.                                            *)

neighbour_offsets == << <<-1, -1>>, <<-1, 0>>, <<-1, 1>>, <<0, -1>>,
                        <<0, 1>>, <<1, -1>>, <<1, 0>>, <<1, 1>> >>

has_neightnor(pt, list3) ==
    \E k \in 1..8 : In(<<pt[1] + neighbour_offsets[k][1],
                         pt[2] + neighbour_offsets[k][2]>>, list3)

\* One run of the two inner loops over i and j: each neighbour of last_pt
\* found in blank_list is removed and inserted at the front, in the order
\* (-1,-1), (-1,0), ..., (1,1).  blank_list comes from a set and holds no
\* point twice, so the neighbours end up at the front, the last one moved
\* first, and the other points keep their relative order behind them.
order_pass(blank_list, last_pt) ==
    LET near == [k \in 1..8 |-> <<last_pt[1] + neighbour_offsets[k][1],
                                  last_pt[2] + neighbour_offsets[k][2]>>]
        is_blank(pt) == In(pt, blank_list)
        is_far(pt) == ~In(pt, near)
        moved == SelectSeq(near, is_blank)
    IN  [k \in 1..Len(moved) |-> moved[Len(moved) + 1 - k]]
            \o SelectSeq(blank_list, is_far)

\* The outer loop runs once per item of the copy blank_list[:].
RECURSIVE order_passes(_, _, _)
order_passes(blank_list, last_pt, times) ==
    IF times = 0 THEN blank_list
    ELSE LET rest(bl) == order_passes(bl, last_pt, times - 1)
         IN  Once(rest, order_pass(blank_list, last_pt))

\* The neighbours of the first point of list3 moved, not of the last.
order_by_first(blank_list, list3) ==
    IF list3 = <<>> THEN blank_list
    ELSE order_passes(blank_list, list3[1], Len(blank_list))

\* The list as order leaves it (the code rearranges blank_list in place).
order(blank_list, list3) ==
    IF list3 = <<>> THEN blank_list
    ELSE order_passes(blank_list, list3[Len(list3)], Len(blank_list))

----------------------------------------------------------------------------
(* Sets turned into lists: list(set(list_all).difference(set(list3))).     *)
(* The order of the list is the order of the slots of the set's hash       *)
(* table.  The build is CPython 3.11 on a 64-bit platform, where the hash  *)
(* of a tuple of integers and the layout of the table are fixed.           *)

\* hash((x, y)) as an unsigned 64-bit number written in base 32, lowest
\* digit first; the row of (x, y) is x * ROW + y + 1.
tuple_hash_table == <<
    <<7, 3, 12, 5, 27, 11, 20, 6, 7, 21, 7, 21, 8>>,
    <<0, 30, 5, 6, 16, 0, 28, 31, 15, 19, 27, 9, 14>>,
    <<18, 4, 13, 15, 6, 18, 11, 11, 4, 5, 31, 7, 6>>,
    <<11, 31, 6, 16, 27, 6, 19, 4, 13, 3, 19, 28, 11>>,
    <<4, 26, 0, 17, 16, 27, 26, 29, 21, 1, 7, 17, 1>>,
    <<22, 0, 8, 26, 6, 13, 28, 0, 5, 4, 13, 9, 13>>,
    <<15, 27, 1, 27, 27, 1, 18, 2, 19, 17, 30, 3, 15>>,
    <<1, 2, 9, 4, 18, 19, 19, 5, 2, 20, 4, 28, 10>>,
    <<24, 24, 6, 21, 26, 9, 7, 25, 19, 28, 20, 16, 11>>,
    <<10, 31, 13, 30, 16, 27, 8, 28, 2, 31, 26, 8, 7>>,
    <<3, 26, 7, 31, 5, 16, 16, 21, 11, 29, 14, 29, 12>>,
    <<28, 20, 1, 0, 27, 4, 6, 23, 25, 10, 0, 24, 14>>,
    <<14, 27, 8, 9, 17, 22, 7, 26, 8, 13, 6, 16, 10>>,
    <<7, 22, 2, 10, 6, 11, 15, 19, 17, 11, 26, 4>>,
    <<25, 28, 9, 19, 28, 28, 16, 22, 0, 14, 0, 29, 11>>,
    <<18, 23, 3, 20, 17, 17, 6, 24, 14, 27, 17, 23, 13>>,
    <<12, 15, 27, 23, 12, 6, 18, 25, 21, 18, 1, 2, 4>>,
    <<5, 10, 21, 24, 1, 27, 7, 27, 3, 0, 19, 28, 5>>,
    <<23, 16, 28, 1, 24, 12, 9, 30, 18, 2, 25, 20, 1>>,
    <<16, 11, 22, 2, 13, 1, 17, 23, 27, 0, 13, 9, 7>>,
    <<2, 18, 29, 11, 3, 19, 18, 26, 10, 3, 19, 1, 3>>,
    <<27, 12, 23, 12, 24, 7, 26, 19, 19, 1, 7, 22, 8>>,
    <<20, 7, 17, 13, 13, 28, 15, 21, 1, 15, 24, 16, 10>>,
    <<6, 14, 24, 22, 3, 14, 17, 24, 16, 17, 30, 8, 6>>,
    <<15, 9, 4, 8, 12, 28, 5, 19, 10, 1, 13, 30, 1>>,
    <<8, 4, 30, 8, 1, 17, 13, 12, 19, 31, 0, 19, 7>>,
    <<26, 10, 5, 18, 23, 2, 15, 15, 2, 2, 7, 11, 3>>,
    <<19, 5, 31, 18, 12, 23, 4, 17, 16, 15, 24, 5, 5>>,
    <<5, 12, 6, 28, 2, 9, 6, 20, 31, 17, 30, 29>>,
    <<30, 6, 0, 29, 23, 29, 13, 13, 8, 16, 18, 18, 6>>,
    <<23, 1, 26, 29, 12, 18, 21, 6, 17, 14, 6, 7, 12>>,
    <<9, 8, 1, 7, 3, 4, 5, 18, 5, 0, 10, 5, 4>>,
    <<3, 0, 25, 10, 30, 24, 16, 19, 12, 23, 25, 15, 10>>,
    <<28, 26, 18, 11, 19, 13, 24, 12, 21, 21, 13, 4>>,
    <<14, 1, 26, 20, 9, 31, 7, 24, 9, 7, 17, 2, 8>>,
    <<7, 28, 19, 21, 30, 19, 15, 17, 18, 5, 5, 23, 13>>,
    <<0, 23, 13, 22, 19, 8, 23, 10, 27, 3, 25, 11, 3>>,
    <<18, 29, 20, 31, 9, 26, 24, 13, 10, 6, 31, 3, 15>>,
    <<11, 24, 14, 0, 31, 14, 14, 15, 24, 19, 16, 30>>,
    <<29, 30, 21, 9, 21, 0, 16, 18, 7, 22, 22, 22, 12>>,
    <<20, 21, 19, 26, 29, 22, 3, 6, 25, 30, 6, 11, 13>>,
    <<13, 16, 13, 27, 18, 11, 11, 31, 1, 29, 26, 31, 2>>,
    <<31, 22, 20, 4, 9, 29, 26, 10, 22, 14, 30, 29, 10>>,
    <<24, 17, 14, 5, 30, 17, 2, 4, 31, 12, 18, 18>>,
    <<10, 24, 21, 14, 20, 3, 4, 7, 14, 15, 24, 10, 12>>,
    <<3, 19, 15, 15, 9, 24, 11, 0, 23, 13, 12, 31, 1>>,
    <<21, 25, 22, 24, 31, 9, 27, 11, 11, 31, 15, 29, 9>>,
    <<14, 20, 16, 25, 20, 30, 2, 5, 20, 29, 3, 18, 15>>,
    <<23, 15, 28, 10, 29, 12, 23, 31, 13, 13, 18, 7, 11>>,
    <<9, 22, 3, 20, 19, 30, 24, 2, 29, 15, 24, 31, 6>>,
    <<2, 17, 29, 20, 8, 19, 0, 28, 5, 14, 12, 20, 12>>,
    <<27, 11, 23, 21, 29, 7, 8, 21, 14, 12, 0, 9, 2>>,
    <<13, 18, 30, 30, 19, 25, 23, 0, 3, 30, 3, 7, 10>>,
    <<6, 13, 24, 31, 8, 14, 31, 25, 11, 28, 23, 27, 15>>,
    <<24, 19, 31, 8, 31, 31, 0, 29, 26, 30, 29, 19, 11>>,
    <<17, 14, 25, 9, 20, 20, 8, 22, 3, 29, 17, 8, 1>>,
    <<11, 6, 17, 13, 15, 9, 2, 0, 16, 3, 31, 24, 3>>,
    <<4, 1, 11, 14, 4, 30, 9, 25, 24, 1, 19, 13, 9>>,
    <<22, 7, 18, 23, 26, 15, 11, 28, 7, 4, 25, 5, 5>>,
    <<15, 2, 12, 24, 15, 4, 1, 30, 21, 17, 10, 0, 7>>,
    <<1, 9, 19, 1, 6, 22, 2, 1, 5, 20, 16, 24, 2>>,
    <<26, 3, 13, 2, 27, 10, 10, 26, 13, 18, 4, 13, 8>>,
    <<19, 30, 6, 3, 16, 31, 17, 19, 22, 16, 24, 1, 14>>,
    <<5, 5, 14, 12, 6, 17, 1, 31, 10, 2, 28, 31, 5>> >>

tuple_hash(pt) == tuple_hash_table[pt[1] * ROW + pt[2] + 1]

\* A slot of a table that holds no key.
Unused == <<>>

\* The lowest bits of a hash (perturb & mask when added to a slot number).
low_bits(perturb, size) ==
    LET d1 == IF Len(perturb) >= 1 THEN perturb[1] ELSE 0
        d2 == IF Len(perturb) >= 2 THEN perturb[2] ELSE 0
    IN  (d1 + 32 * d2) % size

\* perturb >>= 5
shift_perturb(perturb) == IF perturb = <<>> THEN <<>> ELSE Tail(perturb)

\* The slot (counted from 0) the probe sequence of a new key ends at: up to
\* nine slots after i are looked at before the sequence jumps.
RECURSIVE free_slot(_, _, _)
free_slot(table, i, perturb) ==
    LET mask == Len(table) - 1
        last == IF i + 9 <= mask THEN i + 9 ELSE i
        free == {j \in i..last : table[j + 1] = Unused}
        shifted == shift_perturb(perturb)
    IN  IF free # {} THEN CHOOSE j \in free : \A o \in free : j <= o
        ELSE free_slot(table, (i * 5 + 1 + low_bits(shifted, Len(table))) % Len(table),
                       shifted)

set_insert_clean(table, key) ==
    LET h == tuple_hash(key)
    IN  [table EXCEPT ![free_slot(table, low_bits(h, Len(table)), h) + 1] = key]

RECURSIVE table_size(_, _)
table_size(newsize, minused) ==
    IF newsize > minused THEN newsize ELSE table_size(2 * newsize, minused)

\* A table of size unused slots; the sizes are 8, 16, 32, ...
RECURSIVE empty_table(_)
empty_table(size) ==
    IF size <= 8
    THEN <<Unused, Unused, Unused, Unused, Unused, Unused, Unused, Unused>>
    ELSE empty_table(size \div 2) \o empty_table(size \div 2)

\* The keys of a table in the order of its slots.
table_keys(table) ==
    LET used(slot) == slot # Unused
    IN  SelectSeq(table, used)

RECURSIVE insert_all(_, _, _)
insert_all(table, keys, k) ==
    IF k > Len(keys) THEN table
    ELSE LET rest(added) == insert_all(added, keys, k + 1)
         IN  Once(rest, set_insert_clean(table, keys[k]))

\* A table of the size that holds minused keys, filled from the old one in
\* the order of its slots.
set_table_resize(table, minused) ==
    insert_all(empty_table(table_size(8, minused)), table_keys(table), 1)

\* A key is added; the table grows when it is three fifths full.
set_add_key(table, key) ==
    IF In(key, table) THEN table
    ELSE LET added == set_insert_clean(table, key)
             fill == Len(table_keys(added))
         IN  IF fill * 5 < (Len(table) - 1) * 3 THEN added
             ELSE set_table_resize(added, fill * 4)

RECURSIVE set_update(_, _, _)
set_update(table, keys, k) ==
    IF k > Len(keys) THEN table
    ELSE LET rest(added) == set_update(added, keys, k + 1)
         IN  Once(rest, set_add_key(table, keys[k]))

\* set(lst)
new_set(lst) == set_update(empty_table(8), lst, 1)

\* The copy of a set: the same table when the sizes agree, otherwise the
\* keys put into a table of the copy's size in the order of their slots.
set_copy(table) ==
    LET used == Len(table_keys(table))
        size == IF used * 5 >= 7 * 3 THEN table_size(8, used * 2) ELSE 8
    IN  IF size = Len(table) THEN table
        ELSE insert_all(empty_table(size), table_keys(table), 1)

\* The slots first..last of a table with the keys of other taken out: the
\* slot of a key taken out is not used again, the others stay in place.
RECURSIVE set_discard(_, _, _, _)
set_discard(table, other, first, last) ==
    IF first = last
    THEN IF table[first] \in other THEN <<Unused>> ELSE <<table[first]>>
    ELSE LET middle == (first + last) \div 2
         IN  set_discard(table, other, first, middle)
                 \o set_discard(table, other, middle + 1, last)

\* so.difference(other): a copy with the keys of other taken out when so
\* is more than four times as large, otherwise a new set of the keys of so
\* that are not in other, added in the order of the slots of so.
set_difference(so, other) ==
    LET mine == table_keys(so)
        left(key) == key \notin other
    IN  IF Len(mine) \div 4 > Cardinality(other)
        THEN set_discard(set_copy(so), other, 1, Len(set_copy(so)))
        ELSE set_update(empty_table(8), SelectSeq(mine, left), 1)

\* list(s)
set_to_list(table) == table_keys(table)

\* The candidates without the occupied points taken out.
blank_all(list_all, list3) == set_to_list(new_set(list_all))

\* Line 101.
root_blank(list_all, list3) ==
    set_to_list(set_difference(new_set(list_all), Range(list3)))

\* Line 125.
blank_of(list_all, list3) ==
    set_to_list(set_difference(new_set(list_all), Range(list3)))

----------------------------------------------------------------------------
(* Negamax as a function of its arguments (the lists passed by value).     *)

\* The test without game_win(list2).
nega_terminal_own_win(list1, list2, depth) ==
    game_win(list1) \/ depth = 0

nega_terminal(list1, list2, depth) ==
    game_win(list1) \/ game_win(list2) \/ depth = 0

\* The candidate passed over for the forbidden-move test alone.
nega_skip_forbidden_only(next_step, list1, list2, list3, is_me) ==
    is_me /\ Len(list1) = Len(list2) /\ is_forbidden(next_step, list1, list2)

\* Lines 128-133: the candidate is passed over.
nega_skip(next_step, list1, list2, list3, is_me) ==
    IF ~has_neightnor(next_step, list3) THEN TRUE
    ELSE IF is_me /\ Len(list1) = Len(list2)
         THEN is_forbidden(next_step, list1, list2)
         ELSE FALSE

RECURSIVE negamax(_, _, _, _, _, _, _, _, _)
RECURSIVE negamax_loop(_, _, _, _, _, _, _, _, _, _, _)

negamax_loop(list1, list2, list3, list_all, depth, alpha, beta, is_me, ratio, blank_list, i) ==
    IF i > Len(blank_list) THEN alpha
    ELSE LET next_step == blank_list[i]
         IN  IF nega_skip(next_step, list1, list2, list3, is_me)
             THEN negamax_loop(list1, list2, list3, list_all, depth, alpha, beta,
                               is_me, ratio, blank_list, i + 1)
             ELSE LET n1 == IF is_me THEN Append(list1, next_step) ELSE list1
                      n2 == IF is_me THEN list2 ELSE Append(list2, next_step)
                      n3 == Append(list3, next_step)
                      rest(value) ==
                          IF v_gt(value, alpha)
                          THEN IF v_ge(value, beta) THEN beta
                               ELSE negamax_loop(list1, list2, list3, list_all, depth,
                                                 value, beta, is_me, ratio, blank_list, i + 1)
                          ELSE negamax_loop(list1, list2, list3, list_all, depth,
                                            alpha, beta, is_me, ratio, blank_list, i + 1)
                      child(t) == v_neg(negamax(t[1], t[2], t[3], list_all, depth - 1,
                                                v_neg(beta), v_neg(alpha), ~is_me, ratio))
                  IN  Once(rest, Once(child, <<n2, n1, n3>>))

negamax(list1, list2, list3, list_all, depth, alpha, beta, is_me, ratio) ==
    IF nega_terminal(list1, list2, depth) THEN evaluation(list1, list2, ratio)
    ELSE LET loop(blank_list) ==
                 negamax_loop(list1, list2, list3, list_all, depth, alpha, beta, is_me,
                              ratio, blank_list, 1)
         IN  Once(loop, order(blank_of(list_all, list3), list3))

----------------------------------------------------------------------------
(* The result of alpha_beta_search.                                        *)

\* move_scores.sort(key=lambda x: x[1], reverse=True): a stable sort, so
\* each entry goes behind every earlier entry whose score is not smaller.
RECURSIVE sort_insert(_, _)
sort_insert(sorted, entry) ==
    IF sorted = <<>> THEN <<entry>>
    ELSE IF v_ge(sorted[1][2], entry[2])
         THEN <<sorted[1]>> \o sort_insert(Tail(sorted), entry)
         ELSE <<entry>> \o sorted

\* The sort without reverse=True.
RECURSIVE sort_ascending(_, _)
sort_ascending(move_scores, k) ==
    IF k = 0 THEN <<>>
    ELSE LET rest == sort_ascending(move_scores, k - 1)
             lower == {j \in DOMAIN rest : v_le(rest[j][2], move_scores[k][2])}
             at == Cardinality(lower)
         IN  SubSeq(rest, 1, at) \o <<move_scores[k]>> \o SubSeq(rest, at + 1, Len(rest))

RECURSIVE sort_scores(_, _)
sort_scores(move_scores, k) ==
    IF k = 0 THEN <<>>
    ELSE sort_insert(sort_scores(move_scores, k - 1), move_scores[k])

\* [m for m, s in move_scores[:top_n]] after the sort.
top_moves(move_scores, top_n) ==
    LET sorted == sort_scores(move_scores, Len(move_scores))
    IN  [k \in 1..Min(top_n, Len(sorted)) |-> sorted[k][1]]

----------------------------------------------------------------------------
(* The search as it runs: alpha_beta_search and the negamax frames on the  *)
(* call stack, sharing the list objects of the heap.                       *)

(* Bounds of the searches.                                                 *)
SearchW == 5       \* list_all is the SearchW x SearchH corner of the grid
SearchH == 3
MaxBlank == 15     \* blank points when the search is called
MaxDepth == 3
MaxTopN == 3
TreeBudget == 100  \* cap on blank * (blank-1) * ... (depth factors)

\* The default of the parameter ratio.
DefaultRatio == 1

\* [(i, j) for i in range(SearchW) for j in range(SearchH)]
search_all ==
    [k \in 1..(SearchW * SearchH) |-> <<(k - 1) \div SearchH, (k - 1) % SearchH>>]

\* Game records: the stones in the order they were played, first player
\* first; a record goes on over the points left, in board order.
Openings == {
    << <<2, 1>>, <<4, 0>>, <<3, 1>>, <<4, 2>>, <<1, 0>>, <<3, 0>>, <<1, 2>>,
       <<0, 0>>, <<0, 1>>, <<2, 2>>, <<2, 0>>, <<0, 2>> >>,
    << <<0, 0>>, <<0, 2>>, <<1, 0>>, <<1, 2>>, <<2, 0>>, <<2, 2>>, <<3, 0>>,
       <<3, 2>>, <<2, 1>>, <<4, 1>>, <<1, 1>>, <<3, 1>> >> }

record_of(opening) ==
    LET left(pt) == ~In(pt, opening)
    IN  opening \o SelectSeq(search_all, left)

\* The stones at the odd (parity 1) or even (parity 0) places of a record.
RECURSIVE stones_of(_, _, _)
stones_of(rec, k, parity) ==
    IF k = 0 THEN <<>>
    ELSE IF k % 2 = parity THEN Append(stones_of(rec, k - 1, parity), rec[k])
    ELSE stones_of(rec, k - 1, parity)

RECURSIVE tree_size(_, _)
tree_size(blank, depth) ==
    IF depth = 0 \/ blank = 0 THEN 1 ELSE blank * tree_size(blank - 1, depth - 1)

NoFrame == [kind |-> "none"]

IdleFn == [op |-> "none"]

\* The search is called on a position of a game still running: the mover's
\* stones list1, the opponent's list2, all stones list3 in the order played.
Init ==
    \E opening \in Openings, k \in 0..Len(search_all), d \in 1..MaxDepth :
        /\ Len(search_all) - k <= MaxBlank
        /\ tree_size(Len(search_all) - k, d) <= TreeBudget
        /\ LET rec == record_of(opening)
               mine == stones_of(rec, k, (k + 1) % 2)
               theirs == stones_of(rec, k, k % 2)
               occupied == SubSeq(rec, 1, k)
           IN  /\ ~game_win(mine)
               /\ ~game_win(theirs)
               /\ heap = [list1 |-> mine, list2 |-> theirs, list3 |-> occupied,
                          list_all |-> search_all,
                          l1 |-> <<>>, l2 |-> <<>>, l3 |-> <<>>]
               /\ root = [pc |-> "loop", depth |-> d, ratio |-> DefaultRatio,
                          in1 |-> mine, in2 |-> theirs, in3 |-> occupied,
                          blank_list |-> root_blank(search_all, occupied),
                          i |-> 1, move_scores |-> <<>>, top_n |-> 0,
                          result |-> <<>>]
        /\ stack = <<>>
        /\ ret = NoFrame
        /\ fn = IdleFn

\* No copy: the search works on the caller's list objects.
copy_alias(name) == name

\* list1.copy(): the object that holds the copy.  The copies are fresh
\* objects, distinct from the caller's lists.
copy_of(name) ==
    CASE name = "list1" -> "l1"
      [] name = "list2" -> "l2"
      [] name = "list3" -> "l3"

top == stack[Len(stack)]

root_move == root.blank_list[root.i]

\* Lines 103-108: a forbidden candidate of the first player is passed over.
RootSkip ==
    /\ root.pc = "loop"
    /\ root.i <= Len(root.blank_list)
    /\ root_excluded(root_move, heap.list1, heap.list2)
    /\ root' = [root EXCEPT !.i = @ + 1]
    /\ UNCHANGED <<heap, stack, ret, fn>>

\* A frame that keeps the depth of its caller.
new_frame_same_depth(l1, l2, l3, depth, alpha, beta, is_me, h) ==
    [list1 |-> l1, list2 |-> l2, list3 |-> l3, depth |-> depth + 1,
     alpha |-> alpha, beta |-> beta, is_me |-> is_me,
     pc |-> "enter", blank_list |-> <<>>, i |-> 0,
     e1 |-> h[l1], e2 |-> h[l2], e3 |-> h[l3]]

\* The frame of a call negamax(l1, l2, l3, list_all, depth, alpha, beta, is_me, ratio).
new_frame(l1, l2, l3, depth, alpha, beta, is_me, h) ==
    [list1 |-> l1, list2 |-> l2, list3 |-> l3, depth |-> depth,
     alpha |-> alpha, beta |-> beta, is_me |-> is_me,
     pc |-> "enter", blank_list |-> <<>>, i |-> 0,
     e1 |-> h[l1], e2 |-> h[l2], e3 |-> h[l3]]

\* Lines 109-114 up to the call of negamax(l2, l1, l3, ...).
RootPlace ==
    /\ root.pc = "loop"
    /\ root.i <= Len(root.blank_list)
    /\ ~root_excluded(root_move, heap.list1, heap.list2)
    /\ LET a == copy_of("list1")
           b == copy_of("list2")
           c == copy_of("list3")
           h1 == [heap EXCEPT ![a] = heap.list1]
           h2 == [h1 EXCEPT ![b] = h1.list2]
           h3 == [h2 EXCEPT ![c] = h2.list3]
           h4 == [h3 EXCEPT ![a] = Append(@, root_move)]
           h5 == [h4 EXCEPT ![c] = Append(@, root_move)]
       IN  /\ heap' = h5
           /\ stack' = <<new_frame(b, a, c, root.depth - 1, whole(-WINDOW),
                                   whole(WINDOW), FALSE, h5)>>
    /\ root' = [root EXCEPT !.pc = "call"]
    /\ ret' = NoFrame
    /\ UNCHANGED fn

\* Lines 114-115 after negamax has returned.
RootCollect ==
    /\ root.pc = "call"
    /\ stack = <<>>
    /\ ret.kind # "none"
    /\ root' = [root EXCEPT !.pc = "loop", !.i = @ + 1,
                            !.move_scores = Append(@, <<root_move, v_neg(ret.value)>>)]
    /\ ret' = NoFrame
    /\ UNCHANGED <<heap, stack, fn>>

\* Lines 116-117: move_scores is sorted in place and its first top_n moves
\* are returned; top_n is read here and nowhere else.
RootFinish ==
    /\ root.pc = "loop"
    /\ root.i > Len(root.blank_list)
    /\ \E n \in 1..MaxTopN :
           root' = [root EXCEPT !.pc = "done", !.top_n = n,
                                !.move_scores = sort_scores(@, Len(@)),
                                !.result = top_moves(root.move_scores, n)]
    /\ UNCHANGED <<heap, stack, ret, fn>>

\* Lines 123-124.
NegaLeaf ==
    /\ stack # <<>>
    /\ top.pc = "enter"
    /\ nega_terminal(heap[top.list1], heap[top.list2], top.depth)
    /\ ret' = [kind |-> "leaf", frame |-> top,
               value |-> evaluation(heap[top.list1], heap[top.list2], root.ratio)]
    /\ stack' = SubSeq(stack, 1, Len(stack) - 1)
    /\ UNCHANGED <<heap, root, fn>>

\* Lines 125-126.
NegaExpand ==
    /\ stack # <<>>
    /\ top.pc = "enter"
    /\ ~nega_terminal(heap[top.list1], heap[top.list2], top.depth)
    /\ stack' = [stack EXCEPT ![Len(stack)] =
                    [@ EXCEPT !.pc = "loop", !.i = 1,
                              !.blank_list = order(blank_of(heap.list_all, heap[top.list3]),
                                                   heap[top.list3])]]
    /\ UNCHANGED <<heap, root, ret, fn>>

\* Lines 127-133: continue.
NegaSkip ==
    /\ stack # <<>>
    /\ top.pc = "loop"
    /\ top.i <= Len(top.blank_list)
    /\ nega_skip(top.blank_list[top.i], heap[top.list1], heap[top.list2],
                 heap[top.list3], top.is_me)
    /\ stack' = [stack EXCEPT ![Len(stack)] = [@ EXCEPT !.i = @ + 1]]
    /\ UNCHANGED <<heap, root, ret, fn>>

\* The stone appended to the occupied list only.
placed_on_occupied(f) == f.list3

\* Lines 134-138: the list the stone is appended to.
placed_on(f) == IF f.is_me THEN f.list1 ELSE f.list2

\* Lines 134-139 up to the recursive call negamax(list2, list1, list3, ...).
NegaPlace ==
    /\ stack # <<>>
    /\ top.pc = "loop"
    /\ top.i <= Len(top.blank_list)
    /\ ~nega_skip(top.blank_list[top.i], heap[top.list1], heap[top.list2],
                  heap[top.list3], top.is_me)
    /\ LET next_step == top.blank_list[top.i]
           h1 == [heap EXCEPT ![placed_on(top)] = Append(@, next_step)]
           h2 == [h1 EXCEPT ![top.list3] = Append(@, next_step)]
       IN  /\ heap' = h2
           /\ stack' = Append([stack EXCEPT ![Len(stack)] = [@ EXCEPT !.pc = "wait"]],
                              new_frame(top.list2, top.list1, top.list3, top.depth - 1,
                                        v_neg(top.beta), v_neg(top.alpha), ~top.is_me, h2))
    /\ ret' = NoFrame
    /\ UNCHANGED <<root, fn>>

\* The pops without list3.pop().
undo_stone_only(h, f) ==
    [h EXCEPT ![placed_on(f)] = SubSeq(@, 1, Len(@) - 1)]

\* Lines 140-144: the pops.
undo(h, f) ==
    LET h1 == [h EXCEPT ![placed_on(f)] = SubSeq(@, 1, Len(@) - 1)]
    IN  [h1 EXCEPT ![f.list3] = SubSeq(@, 1, Len(@) - 1)]

\* Line 139: value = -negamax(...).
child_value == v_neg(ret.value)

Returned ==
    /\ stack # <<>>
    /\ top.pc = "wait"
    /\ ret.kind # "none"

\* The cutoff taken as soon as the value exceeds alpha.
NegaCutoffEarly ==
    /\ Returned
    /\ v_gt(child_value, top.alpha)
    /\ heap' = undo(heap, top)
    /\ ret' = [kind |-> "cutoff", frame |-> top, value |-> top.beta]
    /\ stack' = SubSeq(stack, 1, Len(stack) - 1)
    /\ UNCHANGED <<root, fn>>

\* Lines 140-147: the pops, then return beta.
NegaCutoff ==
    /\ Returned
    /\ v_gt(child_value, top.alpha)
    /\ v_ge(child_value, top.beta)
    /\ heap' = undo(heap, top)
    /\ ret' = [kind |-> "cutoff", frame |-> top, value |-> top.beta]
    /\ stack' = SubSeq(stack, 1, Len(stack) - 1)
    /\ UNCHANGED <<root, fn>>

\* Lines 140-148: the pops, then alpha = value.
NegaRaise ==
    /\ Returned
    /\ v_gt(child_value, top.alpha)
    /\ ~v_ge(child_value, top.beta)
    /\ heap' = undo(heap, top)
    /\ stack' = [stack EXCEPT ![Len(stack)] =
                    [@ EXCEPT !.pc = "loop", !.i = @ + 1, !.alpha = child_value]]
    /\ ret' = NoFrame
    /\ UNCHANGED <<root, fn>>

\* The value taken as the new alpha although it does not exceed alpha.
NegaKeepLower ==
    /\ Returned
    /\ ~v_gt(child_value, top.alpha)
    /\ heap' = undo(heap, top)
    /\ stack' = [stack EXCEPT ![Len(stack)] =
                    [@ EXCEPT !.pc = "loop", !.i = @ + 1, !.alpha = child_value]]
    /\ ret' = NoFrame
    /\ UNCHANGED <<root, fn>>

\* Lines 140-145: the pops, value <= alpha.
NegaKeep ==
    /\ Returned
    /\ ~v_gt(child_value, top.alpha)
    /\ heap' = undo(heap, top)
    /\ stack' = [stack EXCEPT ![Len(stack)] = [@ EXCEPT !.pc = "loop", !.i = @ + 1]]
    /\ ret' = NoFrame
    /\ UNCHANGED <<root, fn>>

\* The end of the loop returning the static evaluation of the position.
NegaFinishStatic ==
    /\ stack # <<>>
    /\ top.pc = "loop"
    /\ top.i > Len(top.blank_list)
    /\ ret' = [kind |-> "done", frame |-> top,
               value |-> evaluation(heap[top.list1], heap[top.list2], root.ratio)]
    /\ stack' = SubSeq(stack, 1, Len(stack) - 1)
    /\ UNCHANGED <<heap, root, fn>>

\* Line 149.
NegaFinish ==
    /\ stack # <<>>
    /\ top.pc = "loop"
    /\ top.i > Len(top.blank_list)
    /\ ret' = [kind |-> "done", frame |-> top, value |-> top.alpha]
    /\ stack' = SubSeq(stack, 1, Len(stack) - 1)
    /\ UNCHANGED <<heap, root, fn>>

Next ==
    \/ RootSkip
    \/ RootPlace
    \/ RootCollect
    \/ RootFinish
    \/ NegaLeaf
    \/ NegaExpand
    \/ NegaSkip
    \/ NegaPlace
    \/ NegaCutoff
    \/ NegaRaise
    \/ NegaKeep
    \/ NegaFinish

Spec == Init /\ [][Next]_vars

----------------------------------------------------------------------------
(* Claims about alpha_beta_search and negamax, checked under Spec.         *)

Done == root.pc = "done"

\* C1: every point alpha_beta_search returns is a point of list_all, is not
\* in list3, and occurs once in the result.
C1_ResultBlankAndDistinct ==
    Done =>
        /\ \A k \in DOMAIN root.result :
               /\ In(root.result[k], heap.list_all)
               /\ ~In(root.result[k], root.in3)
        /\ NoDup(root.result)

C1_Witness ==
    /\ Done
    /\ Len(root.result) >= 2
    /\ Len(root.in3) >= 2

\* C2: when the stone counts are equal, no returned point is a forbidden
\* move of the mover.
C2_NoForbiddenReturned ==
    (Done /\ Len(root.in1) = Len(root.in2)) =>
        \A k \in DOMAIN root.result :
            ~is_forbidden(root.result[k], root.in1, root.in2)

\* A search of the first player in which a blank point was forbidden.
C2_Witness ==
    /\ Done
    /\ Len(root.in1) = Len(root.in2)
    /\ root.result # <<>>
    /\ \E k \in DOMAIN root.blank_list :
           is_forbidden(root.blank_list[k], root.in1, root.in2)

\* C3: when alpha_beta_search has returned, the caller's four lists hold
\* the sequences they held at the call.
C3_CallerListsUnchanged ==
    Done =>
        /\ heap.list1 = root.in1
        /\ heap.list2 = root.in2
        /\ heap.list3 = root.in3
        /\ heap.list_all = search_all

\* A finished search that went at least two plies deep.
C3_Witness ==
    /\ Done
    /\ root.depth >= 2
    /\ Len(root.move_scores) >= 2

\* C4: at each return of negamax (leaf, end of the loop, cutoff) its three
\* lists hold the sequences they held when it was called.
C4_NegamaxRestoresLists ==
    ret.kind # "none" =>
        /\ heap[ret.frame.list1] = ret.frame.e1
        /\ heap[ret.frame.list2] = ret.frame.e2
        /\ heap[ret.frame.list3] = ret.frame.e3

\* A return by cutoff, from a frame that had placed a stone.
C4_Witness ==
    /\ ret.kind = "cutoff"
    /\ ret.frame.i >= 2

\* The candidates alpha_beta_search scores, in the order it meets them.
scored_candidates ==
    LET kept(pt) == ~root_excluded(pt, root.in1, root.in2)
    IN  SelectSeq(root.blank_list, kept)

\* Minus the negamax value of the position after pt, searched with depth-1
\* and the full window.
root_score(pt) ==
    LET child(t) == v_neg(negamax(root.in2, t[1], t[2], heap.list_all, root.depth - 1,
                                  whole(-WINDOW), whole(WINDOW), FALSE, root.ratio))
    IN  Once(child, <<Append(root.in1, pt), Append(root.in3, pt)>>)

\* The place of a candidate in the order the loop met the candidates.
place_of(pt) == CHOOSE k \in DOMAIN scored_candidates : scored_candidates[k] = pt

score_of(pt) ==
    LET k == CHOOSE k \in DOMAIN root.move_scores : root.move_scores[k][1] = pt
    IN  root.move_scores[k][2]

\* pt goes before qt: greater score, or equal score and met earlier.
goes_before(pt, qt) ==
    \/ v_gt(score_of(pt), score_of(qt))
    \/ score_of(pt) = score_of(qt) /\ place_of(pt) < place_of(qt)

\* The loop over the candidates has ended; the scores are not sorted yet.
Scored == root.pc = "loop" /\ root.i > Len(root.blank_list)

\* C10: the result holds min(top_n, k) of the k scored candidates, by
\* non-increasing score, equal scores in the order the loop met them, every
\* candidate left out coming after all those returned; a candidate's score,
\* as the loop leaves it in move_scores, is minus the negamax value after
\* it; with k = 0 the result is empty.  The scores and the order of the loop
\* are read before the sort of line 116, the result after it.
C10_TopNByScoreStable ==
    /\ [](Scored =>
           root.move_scores =
               [k \in 1..Len(scored_candidates) |->
                   <<scored_candidates[k], root_score(scored_candidates[k])>>])
    /\ [][(Scored /\ root'.pc = "done") =>
            /\ Len(root'.result) = Min(root'.top_n, Len(scored_candidates))
            /\ NoDup(root'.result)
            /\ \A k \in DOMAIN root'.result : In(root'.result[k], scored_candidates)
            /\ \A j, k \in DOMAIN root'.result :
                   j < k => goes_before(root'.result[j], root'.result[k])
            /\ \A k \in DOMAIN scored_candidates :
                   ~In(scored_candidates[k], root'.result) =>
                       \A j \in DOMAIN root'.result :
                           goes_before(root'.result[j], scored_candidates[k])]_vars

\* A result cut to top_n in which two points of equal score are returned and
\* the loop met a point of greater score after one of smaller score.
C10_Witness ==
    /\ Done
    /\ Len(root.move_scores) > root.top_n
    /\ root.top_n >= 2
    /\ score_of(root.result[1]) = score_of(root.result[2])
    /\ \E j, k \in DOMAIN scored_candidates :
           j < k /\ v_lt(score_of(scored_candidates[j]), score_of(scored_candidates[k]))

----------------------------------------------------------------------------
(* Single calls of the pure functions.  The search is not running: its     *)
(* variables keep the values below.                                        *)

SearchIdle ==
    /\ heap = [list1 |-> <<>>, list2 |-> <<>>, list3 |-> <<>>, list_all |-> <<>>,
               l1 |-> <<>>, l2 |-> <<>>, l3 |-> <<>>]
    /\ stack = <<>>
    /\ root = [pc |-> "idle"]
    /\ ret = NoFrame

\* The point j steps from pt along line direction k.
at(pt, k, j) == <<pt[1] + j * directions[k][1], pt[2] + j * directions[k][2]>>

\* [(i, j) for i in range(COLUMN) for j in range(ROW)]
all_points == [k \in 1..(COLUMN * ROW) |-> <<(k - 1) \div ROW, (k - 1) % ROW>>]

on_board(pt) == pt \in Board

----------------------------------------------------------------------------
(* is_forbidden(move, my_list, enemy_list) called on built positions.      *)

(* Bounds of the positions.                                                *)
MaxArm == 3       \* own stones on one side of the move along the first line
MaxArm2 == 2      \* own stones on one side of the move along the second line
MoveSpan == 2     \* the move lies in (0..MoveSpan) x (0..MoveSpan)

\* The board points at 1..n steps from move along direction k, to the side
\* sign.
arm(move, k, sign, n) ==
    SelectSeq([j \in 1..n |-> at(move, k, sign * j)], on_board)

\* A position around move: own stones on both sides of move along two lines,
\* on request one more own stone behind a gap (extra = "far") or an enemy
\* stone (extra = "block") past the first line's arm; the enemy's other
\* stones lie off the four lines through move, as many as make the counts
\* equal (more = 0) or give the enemy one more (more = 1).
forbidden_case(move, d1, d2, a, b, c, d, extra, more) ==
    LET beyond == at(move, d1, b + 1)
        gap == at(move, d1, b + 2)
        far == IF extra = "far" /\ on_board(gap) THEN <<gap>> ELSE <<>>
        block == IF extra = "block" /\ on_board(beyond) THEN <<beyond>> ELSE <<>>
        mine == arm(move, d1, -1, a) \o arm(move, d1, 1, b) \o far
                    \o arm(move, d2, -1, c) \o arm(move, d2, 1, d)
        off_lines(pt) ==
            /\ pt[1] # move[1]
            /\ pt[2] # move[2]
            /\ pt[1] - move[1] # pt[2] - move[2]
            /\ pt[1] - move[1] # move[2] - pt[2]
        filler == SelectSeq(all_points, off_lines)
    IN  [op |-> "is_forbidden", pc |-> "call", move |-> move, my_list |-> mine,
         enemy_list |-> block \o SubSeq(filler, 1, Len(mine) + more - Len(block)),
         result |-> FALSE]

InitForbidden ==
    /\ SearchIdle
    /\ \E x, y \in 0..MoveSpan, d1, d2 \in 1..4, a, b \in 0..MaxArm,
          c, d \in 0..MaxArm2, extra \in {"none", "far", "block"}, more \in 0..1 :
           /\ d1 # d2
           /\ fn = forbidden_case(<<x, y>>, d1, d2, a, b, c, d, extra, more)

CallForbidden ==
    /\ fn.op = "is_forbidden"
    /\ fn.pc = "call"
    /\ fn' = [fn EXCEPT !.pc = "done",
                        !.result = is_forbidden(fn.move, fn.my_list, fn.enemy_list)]
    /\ UNCHANGED <<heap, stack, root, ret>>

NextForbidden == CallForbidden

SpecForbidden == InitForbidden /\ [][NextForbidden]_vars

----------------------------------------------------------------------------
(* Claims about is_forbidden, checked under SpecForbidden.  Runs are       *)
(* counted here from the stones on the board, not by the code's windows.   *)

ForbiddenDone == fn.op = "is_forbidden" /\ fn.pc = "done"

\* An own stone once the move is placed.
placed(pt) == pt = fn.move \/ In(pt, fn.my_list)

\* The own stones in a row from the move along direction k, to the side sign.
ahead(k, sign) ==
    CHOOSE j \in 0..Max(COLUMN, ROW) :
        /\ \A i \in 1..j : placed(at(fn.move, k, sign * i))
        /\ ~placed(at(fn.move, k, sign * (j + 1)))

run_through(k) == 1 + ahead(k, -1) + ahead(k, 1)

\* The two cells next to the ends of the run through the move.
flanks(k) == {at(fn.move, k, -(ahead(k, -1) + 1)), at(fn.move, k, ahead(k, 1) + 1)}

Overline == \E k \in 1..4 : run_through(k) >= 6

\* Runs of exactly n through the move with an empty board cell at each end.
board_open_runs(n) ==
    Cardinality({k \in 1..4 :
        /\ run_through(k) = n
        /\ \A pt \in flanks(k) : pt \in Board /\ ~In(pt, fn.enemy_list)})

CountsEqual == Len(fn.my_list) = Len(fn.enemy_list)

\* C6 as stated: a placement that makes a run of 6 or more is reported
\* forbidden when the counts are equal and not forbidden when they differ.
C6_OverlineByPlayer ==
    (ForbiddenDone /\ Overline) => (fn.result <=> CountsEqual)

\* C6, amended: a placement that makes a run of 6 or more is reported
\* forbidden whatever the stone counts; alpha_beta_search leaves it out
\* exactly when the counts are equal.
C6_OverlineAnyPlayer ==
    (ForbiddenDone /\ Overline) =>
        /\ fn.result = TRUE
        /\ root_excluded(fn.move, fn.my_list, fn.enemy_list) <=> CountsEqual

\* An overline made with unequal stone counts.
C6_Witness ==
    /\ ForbiddenDone
    /\ Overline
    /\ ~CountsEqual
    /\ fn.result = TRUE

\* C7: a placement that makes two or more live threes (a run of exactly 3
\* through the move, an empty board cell at each end) is forbidden; one that
\* makes only one live three, no overline and no double four is not.
C7_DoubleThreeOnly ==
    ForbiddenDone =>
        /\ board_open_runs(3) >= 2 => fn.result = TRUE
        /\ (board_open_runs(3) = 1 /\ ~Overline /\ board_open_runs(4) < 2)
               => fn.result = FALSE

\* C8: is_forbidden is true iff the placement makes an overline, or two or
\* more live threes, or two or more live fours (a run of exactly n through
\* the move, an empty board cell at each end); two live fours are forbidden,
\* one live three with one live four is not.
C8_IndependentRules ==
    ForbiddenDone =>
        /\ fn.result <=> (Overline \/ board_open_runs(3) >= 2 \/ board_open_runs(4) >= 2)
        /\ board_open_runs(4) >= 2 => fn.result = TRUE
        /\ (board_open_runs(3) = 1 /\ board_open_runs(4) = 1 /\ ~Overline)
               => fn.result = FALSE

----------------------------------------------------------------------------
(* game_win(list) called on built stone lists.                             *)

(* Bounds of the stone lists.                                              *)
MaxRun == 6       \* cells of the line segment the stones are taken from

\* The board points of a segment of len cells from start along direction k,
\* without the cell at place hole (hole = 0: none left out), and one stone
\* more at the corner (0, 0) on request.
win_case(start, k, len, hole, corner) ==
    LET kept(j) == j # hole /\ on_board(at(start, k, j - 1))
        places == SelectSeq([j \in 1..len |-> j], kept)
        segment == [j \in 1..Len(places) |-> at(start, k, places[j] - 1)]
    IN  [op |-> "game_win", pc |-> "call",
         list |-> IF corner /\ ~In(<<0, 0>>, segment)
                  THEN Append(segment, <<0, 0>>) ELSE segment,
         result |-> FALSE]

InitWin ==
    /\ SearchIdle
    /\ \E start \in Board, k \in 1..4, len \in 1..MaxRun, hole \in 0..MaxRun,
          corner \in BOOLEAN :
           fn = win_case(start, k, len, hole, corner)

CallWin ==
    /\ fn.op = "game_win"
    /\ fn.pc = "call"
    /\ fn' = [fn EXCEPT !.pc = "done", !.result = game_win(fn.list)]
    /\ UNCHANGED <<heap, stack, root, ret>>

NextWin == CallWin

SpecWin == InitWin /\ [][NextWin]_vars

----------------------------------------------------------------------------
(* Claims about game_win, checked under SpecWin.                           *)

WinDone == fn.op = "game_win" /\ fn.pc = "done"

\* The stones in a row from pt onwards along direction k, pt included.
run_from(pt, k) ==
    LET stone(q) == q \in Board /\ In(q, fn.list)
    IN  CHOOSE j \in 0..Max(COLUMN, ROW) :
            /\ \A i \in 0..(j - 1) : stone(at(pt, k, i))
            /\ ~stone(at(pt, k, j))

longest_run ==
    LET runs == {0} \cup {run_from(pt, k) : pt \in Range(fn.list), k \in 1..4}
    IN  CHOOSE n \in runs : \A r \in runs : r <= n

\* C9: game_win is true when the list holds 5 consecutive board points
\* along a row, a column or a diagonal, anywhere on the grid, and false when
\* the longest run in every direction is 4 or fewer.
C9_FiveInARow ==
    WinDone =>
        /\ longest_run >= 5 => fn.result = TRUE
        /\ longest_run <= 4 => fn.result = FALSE

\* A run of exactly five along the falling diagonal that starts in row 4.
C9_Witness ==
    /\ WinDone
    /\ fn.result = TRUE
    /\ longest_run = 5
    /\ \E m \in 0..(COLUMN - 5) : \A i \in 0..4 : In(<<m + i, 4 - i>>, fn.list)

----------------------------------------------------------------------------
(* evaluation(my_list, enemy_list, ratio) called on positions of the game  *)
(* records.                                                                *)

(* Bounds of the calls.                                                    *)
MaxRatio == 2

\* The position after k stones of a record, seen by the side to move
\* (mover = 1) or by the other side (mover = 0).
eval_case(opening, k, mover, ratio) ==
    LET rec == record_of(opening)
    IN  [op |-> "evaluation", pc |-> "call",
         my_list |-> stones_of(rec, k, (k + mover) % 2),
         enemy_list |-> stones_of(rec, k, (k + mover + 1) % 2),
         ratio |-> ratio, result |-> whole(0), swapped |-> whole(0)]

InitEval ==
    /\ SearchIdle
    /\ \E opening \in Openings, k \in 0..Len(search_all), mover \in 0..1,
          ratio \in 0..MaxRatio :
           fn = eval_case(opening, k, mover, ratio)

\* Two calls: the position, and the position with the two sides swapped.
CallEval ==
    /\ fn.op = "evaluation"
    /\ fn.pc = "call"
    /\ fn' = [fn EXCEPT !.pc = "done",
                        !.result = evaluation(fn.my_list, fn.enemy_list, fn.ratio),
                        !.swapped = evaluation(fn.enemy_list, fn.my_list, fn.ratio)]
    /\ UNCHANGED <<heap, stack, root, ret>>

NextEval == CallEval

SpecEval == InitEval /\ [][NextEval]_vars

----------------------------------------------------------------------------
(* Claims about evaluation, checked under SpecEval.                        *)

EvalDone == fn.op = "evaluation" /\ fn.pc = "done"

\* C5: evaluation(A, B, ratio) = -evaluation(B, A, ratio) for every position
\* and every ratio.
C5_EvaluationAntisymmetric ==
    EvalDone => fn.result = v_neg(fn.swapped)

----------------------------------------------------------------------------
(* Pruning, checked under Spec.                                            *)

\* Negamax of the same depth with the same candidates, filters and
\* placements, without a window: the greatest of minus the children's
\* values, -WINDOW standing for minus infinity.
RECURSIVE full_negamax(_, _, _, _, _, _, _)
RECURSIVE full_loop(_, _, _, _, _, _, _, _, _, _)

full_loop(list1, list2, list3, list_all, depth, best, is_me, ratio, blank_list, i) ==
    IF i > Len(blank_list) THEN best
    ELSE LET next_step == blank_list[i]
         IN  IF nega_skip(next_step, list1, list2, list3, is_me)
             THEN full_loop(list1, list2, list3, list_all, depth, best, is_me, ratio,
                            blank_list, i + 1)
             ELSE LET n1 == IF is_me THEN Append(list1, next_step) ELSE list1
                      n2 == IF is_me THEN list2 ELSE Append(list2, next_step)
                      n3 == Append(list3, next_step)
                      rest(value) ==
                          full_loop(list1, list2, list3, list_all, depth,
                                    IF v_gt(value, best) THEN value ELSE best,
                                    is_me, ratio, blank_list, i + 1)
                      child(t) == v_neg(full_negamax(t[1], t[2], t[3], list_all,
                                                     depth - 1, ~is_me, ratio))
                  IN  Once(rest, Once(child, <<n2, n1, n3>>))

full_negamax(list1, list2, list3, list_all, depth, is_me, ratio) ==
    IF nega_terminal(list1, list2, depth) THEN evaluation(list1, list2, ratio)
    ELSE LET loop(blank_list) ==
                 full_loop(list1, list2, list3, list_all, depth, whole(-WINDOW), is_me,
                           ratio, blank_list, 1)
         IN  Once(loop, order(blank_of(list_all, list3), list3))

full_score(pt) ==
    LET child(t) == v_neg(full_negamax(root.in2, t[1], t[2], heap.list_all,
                                       root.depth - 1, FALSE, root.ratio))
    IN  Once(child, <<Append(root.in1, pt), Append(root.in3, pt)>>)

RECURSIVE cut_negamax(_, _, _, _, _, _, _, _, _)
RECURSIVE cut_loop(_, _, _, _, _, _, _, _, _, _, _, _)

cut_loop(list1, list2, list3, list_all, depth, alpha, beta, is_me, ratio, blank_list, i, cuts) ==
    IF i > Len(blank_list) THEN <<alpha, cuts>>
    ELSE LET next_step == blank_list[i]
         IN  IF nega_skip(next_step, list1, list2, list3, is_me)
             THEN cut_loop(list1, list2, list3, list_all, depth, alpha, beta, is_me,
                           ratio, blank_list, i + 1, cuts)
             ELSE LET n1 == IF is_me THEN Append(list1, next_step) ELSE list1
                      n2 == IF is_me THEN list2 ELSE Append(list2, next_step)
                      n3 == Append(list3, next_step)
                      rest(r) ==
                          IF v_gt(v_neg(r[1]), alpha)
                          THEN IF v_ge(v_neg(r[1]), beta) THEN <<beta, cuts + r[2] + 1>>
                               ELSE cut_loop(list1, list2, list3, list_all, depth,
                                             v_neg(r[1]), beta, is_me, ratio, blank_list,
                                             i + 1, cuts + r[2])
                          ELSE cut_loop(list1, list2, list3, list_all, depth, alpha, beta,
                                        is_me, ratio, blank_list, i + 1, cuts + r[2])
                      child(t) == cut_negamax(t[1], t[2], t[3], list_all, depth - 1,
                                              v_neg(beta), v_neg(alpha), ~is_me, ratio)
                  IN  Once(rest, Once(child, <<n2, n1, n3>>))

cut_negamax(list1, list2, list3, list_all, depth, alpha, beta, is_me, ratio) ==
    IF nega_terminal(list1, list2, depth) THEN <<evaluation(list1, list2, ratio), 0>>
    ELSE LET loop(blank_list) ==
                 cut_loop(list1, list2, list3, list_all, depth, alpha, beta, is_me,
                          ratio, blank_list, 1, 0)
         IN  Once(loop, order(blank_of(list_all, list3), list3))

cutoffs_below(pt) ==
    LET child(t) == cut_negamax(root.in2, t[1], t[2], heap.list_all, root.depth - 1,
                                whole(-WINDOW), whole(WINDOW), FALSE, root.ratio)[2]
    IN  Once(child, <<Append(root.in1, pt), Append(root.in3, pt)>>)

----------------------------------------------------------------------------
(* negamax called by itself: any depth, any window alpha < beta.           *)

(* Bounds of the calls.                                                    *)
MaxCallDepth == 2   \* depth is in -1..MaxCallDepth
MaxFreeBlank == 4   \* blank points of a call with negative depth
CallBudget == 75    \* nodes of the tree of a call with depth >= 0

\* (alpha, beta) of the call.
Windows == { <<whole(-WINDOW), whole(WINDOW)>>, <<whole(-50), whole(50)>>,
             <<whole(0), whole(5000)>> }

\* negamax(list1, list2, list3, list_all, depth, alpha, beta, is_me, ratio)
\* on a position of a game still running, list1 the side to move.
InitNega ==
    \E opening \in Openings, k \in 0..Len(search_all), d \in -1..MaxCallDepth,
       w \in Windows, me \in BOOLEAN :
        /\ Len(search_all) - k <= MaxBlank
        /\ IF d < 0 THEN Len(search_all) - k <= MaxFreeBlank
           ELSE tree_size(Len(search_all) - k, d) <= CallBudget
        /\ LET rec == record_of(opening)
               mine == stones_of(rec, k, (k + 1) % 2)
               theirs == stones_of(rec, k, k % 2)
               h == [list1 |-> mine, list2 |-> theirs, list3 |-> SubSeq(rec, 1, k),
                     list_all |-> search_all, l1 |-> <<>>, l2 |-> <<>>, l3 |-> <<>>]
           IN  /\ ~game_win(mine)
               /\ ~game_win(theirs)
               /\ heap = h
               /\ stack = <<new_frame("list1", "list2", "list3", d, w[1], w[2], me, h)>>
        /\ root = [pc |-> "direct", ratio |-> DefaultRatio, alpha |-> w[1], beta |-> w[2]]
        /\ ret = NoFrame
        /\ fn = IdleFn

NextNega ==
    \/ NegaLeaf
    \/ NegaExpand
    \/ NegaSkip
    \/ NegaPlace
    \/ NegaCutoff
    \/ NegaRaise
    \/ NegaKeep
    \/ NegaFinish

SpecNega == InitNega /\ [][NextNega]_vars

----------------------------------------------------------------------------
(* Claims about single negamax calls, checked under SpecNega.              *)

\* C12: a negamax call with depth <= 0 returns evaluation(list1, list2,
\* ratio) of its position at once: its frame places no stone, makes no
\* recursive call, and what it returns is the evaluation.
C12_NonPositiveDepthIsLeaf ==
    /\ \A k \in DOMAIN stack : stack[k].depth <= 0 => stack[k].pc = "enter"
    /\ (ret.kind # "none" /\ ret.frame.depth <= 0) =>
           /\ ret.kind = "leaf"
           /\ ret.value = evaluation(ret.frame.e1, ret.frame.e2, root.ratio)

----------------------------------------------------------------------------
(* is_forbidden called twice on the same list objects, statement by        *)
(* statement.  heap holds the list objects: the caller's two lists and the *)
(* list the call builds; fn holds the call's names for them, the values    *)
(* the caller's lists had at the first call (in_my, in_enemy), and the     *)
(* first call's result (first).                                            *)

InitForbiddenTwice ==
    /\ stack = <<>>
    /\ root = [pc |-> "idle"]
    /\ ret = NoFrame
    /\ \E x, y \in 0..MoveSpan, d1, d2 \in 1..4, a, b \in 0..MaxArm,
          c, d \in 0..MaxArm2, extra \in {"none", "far", "block"}, more \in 0..1 :
           /\ d1 # d2
           /\ \E case \in {forbidden_case(<<x, y>>, d1, d2, a, b, c, d, extra, more)} :
                  /\ heap = [my_list |-> case.my_list, enemy_list |-> case.enemy_list,
                             new_list |-> <<>>]
                  /\ fn = [op |-> "is_forbidden", pc |-> "call", calls |-> 1,
                           move |-> case.move, my_list |-> "my_list",
                           enemy_list |-> "enemy_list", temp_list |-> "unbound",
                           in_my |-> case.my_list, in_enemy |-> case.enemy_list,
                           result |-> FALSE, first |-> FALSE]

\* temp_list = my_list; temp_list.append(move): the stone put on the caller's
\* list.
ForbiddenPlaceInPlace ==
    /\ fn.op = "is_forbidden"
    /\ fn.pc = "call"
    /\ heap' = [heap EXCEPT ![fn.my_list] = Append(@, fn.move)]
    /\ fn' = [fn EXCEPT !.pc = "placed", !.temp_list = fn.my_list]
    /\ UNCHANGED <<stack, root, ret>>

\* Line 37, temp_list = my_list + [move]: the concatenation makes a new list
\* object and temp_list names it.
ForbiddenPlace ==
    /\ fn.op = "is_forbidden"
    /\ fn.pc = "call"
    /\ heap' = [heap EXCEPT !.new_list = Append(heap[fn.my_list], fn.move)]
    /\ fn' = [fn EXCEPT !.pc = "placed", !.temp_list = "new_list"]
    /\ UNCHANGED <<stack, root, ret>>

\* Lines 38-48: count_continuous and count_live_n read the lists that
\* temp_list and enemy_list name, and the call returns.
ForbiddenCheck ==
    /\ fn.op = "is_forbidden"
    /\ fn.pc = "placed"
    /\ LET temp_list == heap[fn.temp_list]
           enemy_list == heap[fn.enemy_list]
           live3 == count_live_n(fn.move, temp_list, enemy_list, 3)
           live4 == count_live_n(fn.move, temp_list, enemy_list, 4)
       IN  fn' = [fn EXCEPT !.pc = "done", !.temp_list = "unbound",
                            !.result = IF count_continuous(fn.move, temp_list) >= 6
                                       THEN TRUE
                                       ELSE IF live3 >= 2 THEN TRUE
                                       ELSE IF live4 >= 2 THEN TRUE
                                       ELSE FALSE]
    /\ UNCHANGED <<heap, stack, root, ret>>

\* The caller keeps the result and calls again, with the same move and the
\* same two list objects.
ForbiddenAgain ==
    /\ fn.op = "is_forbidden"
    /\ fn.pc = "done"
    /\ fn.calls = 1
    /\ fn' = [fn EXCEPT !.pc = "call", !.calls = 2, !.first = fn.result]
    /\ UNCHANGED <<heap, stack, root, ret>>

NextForbiddenTwice ==
    \/ ForbiddenPlace
    \/ ForbiddenCheck
    \/ ForbiddenAgain

SpecForbiddenTwice == InitForbiddenTwice /\ [][NextForbiddenTwice]_vars

\* C13: during and after a call of is_forbidden the caller's my_list and
\* enemy_list hold what they held before the first call (the stone is placed
\* in temp_list, a list of its own), and the second call with the same
\* arguments returns what the first returned.
C13_ForbiddenIsPure ==
    /\ heap[fn.my_list] = fn.in_my
    /\ heap[fn.enemy_list] = fn.in_enemy
    /\ (fn.pc = "done" /\ fn.calls = 2) => fn.result = fn.first

\* A forbidden placement asked about twice.
C13_Witness ==
    /\ fn.pc = "done"
    /\ fn.calls = 2
    /\ fn.result = TRUE
    /\ Len(heap[fn.my_list]) >= 4

\* C17: a call with game_win(list1), game_win(list2) or depth == 0 returns
\* evaluation(list1, list2, ratio) from its entry, no child generated; a
\* call in any other case returns from its loop, with its alpha or beta.
C17_TerminalIsStatic ==
    ret.kind # "none" =>
        IF ret.frame.depth = 0 \/ game_win(ret.frame.e1) \/ game_win(ret.frame.e2)
        THEN /\ ret.kind = "leaf"
             /\ ret.frame.pc = "enter"
             /\ ret.value = evaluation(ret.frame.e1, ret.frame.e2, root.ratio)
        ELSE /\ ret.kind \in {"cutoff", "done"}
             /\ ret.frame.pc \in {"wait", "loop"}
             /\ ret.value \in {ret.frame.alpha, ret.frame.beta}

\* A call returned at once for a five of the opponent, with depth left.
C17_Witness ==
    /\ ret.kind = "leaf"
    /\ ret.frame.depth > 0
    /\ game_win(ret.frame.e2)
    /\ ~game_win(ret.frame.e1)

----------------------------------------------------------------------------
(* Claims about the frames of a search, checked under Spec.                *)

\* The stone a frame has placed and is waiting on.
placed_stone(f) == f.blank_list[f.i]

\* C14: the stone a non-terminal frame places goes to the stones of the
\* frame's mover, list1, and to the occupied list, so the simulated stones
\* of a line of play alternate between the two sides, the first of them
\* going to the opponent of the root mover.
C14_StoneToFrameMover ==
    \A k \in DOMAIN stack :
        stack[k].pc = "wait" =>
            /\ In(placed_stone(stack[k]), heap[stack[k].list1])
            /\ ~In(placed_stone(stack[k]), heap[stack[k].list2])
            /\ In(placed_stone(stack[k]), heap[stack[k].list3])
            /\ In(placed_stone(stack[k]), IF k % 2 = 1 THEN heap.l2 ELSE heap.l1)

\* The frame at place k of the stack moves for the first player of the
\* game: the root mover has moved before frame 1, and is the first player
\* when the two sides had equally many stones at the call of the search.
first_player_frame(k) == (k % 2 = 0) <=> (Len(root.in1) = Len(root.in2))

\* C15: in a frame in which the first player is to move, a candidate for
\* which is_forbidden holds on the frame's lists is never placed.
C15_NoForbiddenPlaced ==
    \A k \in DOMAIN stack :
        (stack[k].pc = "wait" /\ first_player_frame(k)) =>
            ~is_forbidden(placed_stone(stack[k]), stack[k].e1, stack[k].e2)

\* The alpha a frame of a search was called with: the root calls with
\* -WINDOW, a frame calls its child with the negation of its own beta.
incoming_alpha(k) == IF k = 1 THEN whole(-WINDOW) ELSE v_neg(stack[k - 1].beta)

v_max(v, w) == IF v_ge(v, w) THEN v ELSE w

\* C16: a non-terminal call with alpha < beta returns r with
\* alpha <= r <= beta.  While it runs, its alpha is the maximum of the
\* incoming alpha and the negated values of the children explored so far;
\* it returns beta at the first child whose negated value is >= beta, the
\* remaining siblings unexplored, and otherwise, all candidates done, the
\* maximum it holds.
C16_ResultInWindow ==
    [][/\ \A k \in DOMAIN stack :
              /\ v_le(incoming_alpha(k), stack[k].alpha)
              /\ v_lt(stack[k].alpha, stack[k].beta)
       /\ (Returned /\ Len(stack') = Len(stack)) =>
              /\ v_lt(child_value, top.beta)
              /\ stack'[Len(stack)].alpha = v_max(top.alpha, child_value)
              /\ stack'[Len(stack)].i = top.i + 1
       /\ (Returned /\ Len(stack') < Len(stack)) =>
              /\ v_ge(child_value, top.beta)
              /\ ret'.frame = top
              /\ ret'.value = top.beta
       /\ (stack # <<>> /\ top.pc = "loop" /\ Len(stack') < Len(stack)) =>
              /\ top.i > Len(top.blank_list)
              /\ ret'.value = top.alpha
              /\ v_le(incoming_alpha(Len(stack)), ret'.value)
              /\ v_le(ret'.value, top.beta)]_vars

\* A cutoff in a frame below the first, its alpha raised by an earlier
\* child, with candidates left behind.
C16_Witness ==
    /\ ret.kind = "cutoff"
    /\ stack # <<>>
    /\ ret.frame.i < Len(ret.frame.blank_list)
    /\ v_gt(ret.frame.alpha, v_neg(top.beta))

\* Two stone lists and an occupied list that fit together.
consistent_position(l1, l2, l3) ==
    /\ NoDup(l3)
    /\ Range(l1) \cap Range(l2) = {}
    /\ Range(l1) \cup Range(l2) = Range(l3)
    /\ Len(l1) + Len(l2) = Len(l3)
    /\ Range(l3) \subseteq Range(heap.list_all)

\* C18: the search being called with disjoint stone lists inside list_all
\* and list3 their union, at every negamax node the two stone lists are
\* disjoint, inside list_all, and the occupied list is their union with no
\* point twice; so it is on entry of the node and while it runs.
C18_ListsStayConsistent ==
    consistent_position(root.in1, root.in2, root.in3) =>
        \A k \in DOMAIN stack :
            /\ consistent_position(stack[k].e1, stack[k].e2, stack[k].e3)
            /\ consistent_position(heap[stack[k].list1], heap[stack[k].list2],
                                   heap[stack[k].list3])

\* A node two simulated stones below the root move.
C18_Witness ==
    /\ Len(stack) = 3
    /\ top.pc = "enter"
    /\ Len(top.e3) = Len(root.in3) + 3
    /\ consistent_position(root.in1, root.in2, root.in3)

\* Two different cells that touch, by a side or by a corner.
touches(p, q) ==
    /\ p # q
    /\ p[1] - q[1] \in -1..1
    /\ p[2] - q[2] \in -1..1

lonely(pt, occupied) == \A k \in DOMAIN occupied : ~touches(pt, occupied[k])

\* C19: a stone negamax places has an occupied cell among its 8
\* neighbours; the root scores every blank cell that is not a forbidden
\* move, cells without occupied neighbour included.
C19_AdjacencyBelowRootOnly ==
    /\ \A k \in DOMAIN stack :
           stack[k].pc = "wait" => ~lonely(placed_stone(stack[k]), stack[k].e3)
    /\ Scored =>
           \A k \in DOMAIN heap.list_all :
               (/\ ~In(heap.list_all[k], root.in3)
                /\ ~is_forbidden(heap.list_all[k], root.in1, root.in2))
                   => \E m \in DOMAIN root.move_scores :
                          root.move_scores[m][1] = heap.list_all[k]

\* The root has placed a stone on a cell without occupied neighbour, and
\* the frame below has gone past such a cell and placed a later candidate.
C19_Witness ==
    /\ root.pc = "call"
    /\ root.in3 # <<>>
    /\ lonely(root_move, root.in3)
    /\ stack # <<>>
    /\ stack[1].pc = "wait"
    /\ \E j \in 1..(stack[1].i - 1) : lonely(stack[1].blank_list[j], stack[1].e3)

----------------------------------------------------------------------------
(* order(blank_list, list3) called on built lists.                         *)

OrderW == 3

OrderH == 2

MaxOrderLen == 3

MaxOccupied == 2

order_cells == [k \in 1..(OrderW * OrderH) |-> <<(k - 1) \div OrderH, (k - 1) % OrderH>>]

\* blank_list comes from a set difference: no point twice, none of list3.
blank_lists ==
    {bl \in UNION {[1..n -> Range(order_cells)] : n \in 0..MaxOrderLen} : NoDup(bl)}

\* A list of n occupied cells that ends with last_pt, the cells before it
\* the first cells of the board that are neither blank nor last_pt.
occupied_list(blank_list, last_pt, n) ==
    LET other(pt) == pt # last_pt /\ ~In(pt, blank_list)
        others == SelectSeq(order_cells, other)
    IN  SubSeq(others, 1, Min(n - 1, Len(others))) \o <<last_pt>>

order_case(blank_list, list3) ==
    [op |-> "order", pc |-> "call", blank_list |-> blank_list, list3 |-> list3,
     in_blank |-> blank_list, in_list3 |-> list3]

InitOrder ==
    /\ SearchIdle
    /\ \E bl \in blank_lists :
           \/ fn = order_case(bl, <<>>)
           \/ \E k \in DOMAIN order_cells, n \in 1..MaxOccupied :
                  /\ ~In(order_cells[k], bl)
                  /\ fn = order_case(bl, occupied_list(bl, order_cells[k], n))

\* order works on the caller's blank_list and only reads list3.
CallOrder ==
    /\ fn.op = "order"
    /\ fn.pc = "call"
    /\ fn' = [fn EXCEPT !.pc = "done",
                        !.blank_list = order(fn.blank_list, fn.list3)]
    /\ UNCHANGED <<heap, stack, root, ret>>

NextOrder == CallOrder

SpecOrder == InitOrder /\ [][NextOrder]_vars

OrderDone == fn.op = "order" /\ fn.pc = "done"

\* C20: with list3 not empty, order leaves blank_list a permutation of what
\* it was, the candidates that touch the last point of list3 first and all
\* the others behind them in their original relative order; with list3 empty
\* blank_list is unchanged; list3 is as it was.
C20_OrderNeighboursFirst ==
    OrderDone =>
        /\ fn.list3 = fn.in_list3
        /\ IF fn.in_list3 = <<>> THEN fn.blank_list = fn.in_blank
           ELSE LET last_pt == fn.in_list3[Len(fn.in_list3)]
                    near(pt) == touches(pt, last_pt)
                    far(pt) == ~touches(pt, last_pt)
                    n == Len(SelectSeq(fn.in_blank, near))
                IN  /\ Len(fn.blank_list) = Len(fn.in_blank)
                    /\ Range(fn.blank_list) = Range(fn.in_blank)
                    /\ \A k \in 1..n : near(fn.blank_list[k])
                    /\ SubSeq(fn.blank_list, n + 1, Len(fn.blank_list))
                           = SelectSeq(fn.in_blank, far)

\* Two candidates that touch the last point were behind one that does not,
\* and list3 holds an earlier point that one of them does not touch.
C20_Witness ==
    /\ OrderDone
    /\ Len(fn.in_list3) = 2
    /\ Len(fn.in_blank) = 3
    /\ ~touches(fn.in_blank[1], fn.in_list3[2])
    /\ touches(fn.in_blank[2], fn.in_list3[2])
    /\ touches(fn.in_blank[3], fn.in_list3[2])
    /\ ~touches(fn.in_blank[2], fn.in_list3[1])
    /\ fn.blank_list # fn.in_blank

----------------------------------------------------------------------------
(* evaluation(my_list, enemy_list, ratio) run call by call: one step per   *)
(* cal_score call, score_all_arr in view.                                  *)

\* Games on one line and around it, the first player's moves at the odd
\* places; evaluation reads coordinates only, no board.
LineRecords == {
    << <<1, 0>>, <<0, 0>>, <<2, 0>>, <<0, 3>>, <<3, 0>>, <<4, 3>>, <<6, 0>>,
       <<2, 1>>, <<6, 1>> >>,
    << <<1, 0>>, <<8, 0>>, <<2, 0>>, <<8, 3>>, <<5, 0>>, <<3, 4>>, <<6, 0>>,
       <<0, 4>>, <<7, 0>>, <<5, 1>> >>,
    << <<2, 2>>, <<0, 0>>, <<3, 3>>, <<1, 0>>, <<4, 4>>, <<2, 0>>, <<3, 2>>,
       <<3, 0>>, <<5, 5>>, <<5, 0>>, <<6, 6>>, <<6, 0>> >>,
    << <<3, 0>>, <<3, 4>>, <<5, 0>>, <<0, 4>>, <<6, 0>>, <<7, 3>>, <<8, 0>>,
       <<1, 2>> >> }

ScoreRecords == Openings \cup LineRecords

\* The same stones handed over in the opposite order.
Reverse(lst) == [k \in 1..Len(lst) |-> lst[Len(lst) + 1 - k]]

score_case(rec, k, mover, ratio, rev) ==
    LET mine == stones_of(rec, k, (k + mover) % 2)
        theirs == stones_of(rec, k, (k + mover + 1) % 2)
        my_list == IF rev THEN Reverse(mine) ELSE mine
        enemy_list == IF rev THEN Reverse(theirs) ELSE theirs
    IN  [op |-> "score", pc |-> "mine", my_list |-> my_list, enemy_list |-> enemy_list,
         in_my |-> my_list, in_enemy |-> enemy_list, ratio |-> ratio,
         step |-> 0, arr |-> <<>>, my_score |-> 0, enemy_score |-> 0,
         last |-> [kind |-> "start"], result |-> whole(0)]

InitScore ==
    /\ SearchIdle
    /\ \E rec \in ScoreRecords :
           \E k \in 0..Len(rec), mover \in 0..1, ratio \in 0..MaxRatio, rev \in BOOLEAN :
               fn = score_case(rec, k, mover, ratio, rev)

\* The side whose stones the running loop goes through, and the other.
pass_stones == IF fn.pc = "mine" THEN fn.my_list ELSE fn.enemy_list

pass_others == IF fn.pc = "mine" THEN fn.enemy_list ELSE fn.my_list

pass_open == fn.op = "score" /\ fn.pc \in {"mine", "enemy"} /\ fn.step < 4 * Len(pass_stones)

\* The stone and the direction of the next cal_score call.
pass_pt == pass_stones[(fn.step \div 4) + 1]

pass_dir == eval_directions[(fn.step % 4) + 1]

pass_best ==
    scan_offsets(window_line(pass_pt[1], pass_pt[2], pass_dir[1], pass_dir[2],
                             pass_others, pass_stones))

pass_skipped == already_scored(pass_pt[1], pass_pt[2], pass_dir[1], pass_dir[2], fn.arr)

\* The call made, its return value added to the running score of the side.
after_call(kind) ==
    LET r == cal_score(pass_pt[1], pass_pt[2], pass_dir[1], pass_dir[2],
                       pass_others, pass_stones, fn.arr)
        seen == [kind |-> kind, pt |-> pass_pt, d |-> pass_dir, value |-> r.score,
                 offset |-> pass_best[1]]
    IN  IF fn.pc = "mine"
        THEN [fn EXCEPT !.step = @ + 1, !.arr = r.arr, !.last = seen,
                        !.my_score = @ + r.score]
        ELSE [fn EXCEPT !.step = @ + 1, !.arr = r.arr, !.last = seen,
                        !.enemy_score = @ + r.score]

\* Lines 198-201: the stone lies in a recorded shape of this direction.
ScoreSkip ==
    /\ pass_open
    /\ pass_skipped
    /\ fn' = after_call("skip")
    /\ UNCHANGED <<heap, stack, root, ret>>

\* Lines 202-229 with no template matched: max_score_shape stays (0, None).
ScoreNone ==
    /\ pass_open
    /\ ~pass_skipped
    /\ pass_best[1] = 1
    /\ fn' = after_call("none")
    /\ UNCHANGED <<heap, stack, root, ret>>

\* Lines 202-229 with a match: bonus added, shape appended.
ScoreCredit ==
    /\ pass_open
    /\ ~pass_skipped
    /\ pass_best[1] # 1
    /\ fn' = after_call("credit")
    /\ UNCHANGED <<heap, stack, root, ret>>

\* Lines 184-185: a fresh accumulator for the enemy's stones.
ScoreEnemy ==
    /\ fn.op = "score"
    /\ fn.pc = "mine"
    /\ fn.step >= 4 * Len(fn.my_list)
    /\ fn' = [fn EXCEPT !.pc = "enemy", !.step = 0, !.arr = <<>>,
                        !.last = [kind |-> "start"]]
    /\ UNCHANGED <<heap, stack, root, ret>>

\* Lines 192-193.
ScoreTotal ==
    /\ fn.op = "score"
    /\ fn.pc = "enemy"
    /\ fn.step >= 4 * Len(fn.enemy_list)
    /\ fn' = [fn EXCEPT !.pc = "done",
                        !.result = minus_tenths(fn.my_score, fn.enemy_score * fn.ratio)]
    /\ UNCHANGED <<heap, stack, root, ret>>

NextScore == ScoreSkip \/ ScoreNone \/ ScoreCredit \/ ScoreEnemy \/ ScoreTotal

SpecScore == InitScore /\ [][NextScore]_vars

----------------------------------------------------------------------------
(* Claims about the accumulator, checked under SpecScore.                  *)

same_shape(a, b) == a.d = b.d /\ Range(a.cells) = Range(b.cells)

\* C21: within the pass of one side no two entries of the accumulator have
\* the same direction and the same cell set, and a call for a stone that
\* lies in a recorded shape of the call's direction returns 0.
C21_ShapeCreditedOnce ==
    fn.op = "score" =>
        /\ \A i, j \in DOMAIN fn.arr : same_shape(fn.arr[i], fn.arr[j]) => i = j
        /\ (fn.pc \in {"mine", "enemy"} /\ fn.last.kind # "start" /\ fn.last.value # 0) =>
               \A k \in 1..(Len(fn.arr) - 1) :
                   ~(fn.arr[k].d = fn.last.d /\ In(fn.last.pt, fn.arr[k].cells))

\* C22: the window of a credited match contains the stone the call scores:
\* it starts at most four cells before the stone, and the cell set recorded
\* for the shape includes the stone.
C22_WindowHoldsStone ==
    (fn.op = "score" /\ fn.last.kind = "credit") =>
        /\ fn.last.offset \in -4..0
        /\ In(fn.last.pt, fn.arr[Len(fn.arr)].cells)

\* The earlier entries that pair with the last one for a bonus: a cell in
\* common, both scores above 10.
bonus_pairs ==
    {k \in 1..(Len(fn.arr) - 1) :
        /\ fn.arr[k].s > 10
        /\ fn.arr[Len(fn.arr)].s > 10
        /\ Range(fn.arr[k].cells) \cap Range(fn.arr[Len(fn.arr)].cells) # {}}

pair_sum(k) == fn.arr[k].s + fn.arr[Len(fn.arr)].s

\* C23: a call that credits a shape returns the score of the shape plus,
\* once for each recorded shape that shares a cell with it (both scores
\* above 10), the sum of the two scores.
C23_BonusOncePerPair ==
    (fn.op = "score" /\ fn.last.kind = "credit") =>
        LET add == [k \in 1..(Len(fn.arr) - 1) |->
                       IF k \in bonus_pairs THEN pair_sum(k) ELSE 0]
        IN  fn.last.value = fn.arr[Len(fn.arr)].s + SumTo(add, Len(fn.arr) - 1)

\* The marker of the cell j steps from the scored stone along the call's
\* direction: 2 a stone of the other side, 1 an own stone, 0 neither.
mark(j) ==
    LET pt == <<pass_pt[1] + j * pass_dir[1], pass_pt[2] + j * pass_dir[2]>>
    IN  IF In(pt, pass_others) THEN 2 ELSE IF In(pt, pass_stones) THEN 1 ELSE 0

\* Template k of the table lies on the cells from offset o on.
fits(k, o) == \A j \in DOMAIN shape_score[k][2] : shape_score[k][2][j] = mark(o + j - 1)

\* The highest score among the templates that lie on the cells from
\* offset o on, 0 when none does.
fit_score(o) ==
    LET S == {shape_score[k][1] : k \in {j \in DOMAIN shape_score : fits(j, o)}}
    IN  IF S = {} THEN 0 ELSE CHOOSE v \in S : \A w \in S : w <= v

\* fit_score of the six windows of the call, offsets -5..0.
fit_scores == <<fit_score(-5), fit_score(-4), fit_score(-3), fit_score(-2),
                fit_score(-1), fit_score(0)>>

top_of(sc) == CHOOSE v \in Range(sc) : \A w \in Range(sc) : w <= v

\* The first offset whose window reaches the top score.
first_top(sc) == (CHOOSE k \in 1..6 : sc[k] = top_of(sc) /\ \A j \in 1..(k - 1) : sc[j] < sc[k]) - 6

\* The bonus of a shape of score v on the five cells from offset o on.
bonus_of(v, o) ==
    LET cells == {<<pass_pt[1] + (o + j) * pass_dir[1],
                    pass_pt[2] + (o + j) * pass_dir[2]>> : j \in 0..4}
        add == [k \in DOMAIN fn.arr |->
                   IF v > 10 /\ fn.arr[k].s > 10
                   THEN Cardinality(cells \cap Range(fn.arr[k].cells)) * (fn.arr[k].s + v)
                   ELSE 0]
    IN  SumTo(add, Len(fn.arr))

in_recorded ==
    \E k \in DOMAIN fn.arr : fn.arr[k].d = pass_dir /\ In(pass_pt, fn.arr[k].cells)

\* What one call has to leave behind, sc being the scores of its windows.
call_leaves(sc) ==
    IF in_recorded \/ top_of(sc) = 0
    THEN fn'.last.value = 0 /\ fn'.arr = fn.arr
    ELSE /\ fn'.last.value = top_of(sc) + bonus_of(top_of(sc), first_top(sc))
         /\ Len(fn'.arr) = Len(fn.arr) + 1
         /\ SubSeq(fn'.arr, 1, Len(fn.arr)) = fn.arr
         /\ fn'.arr[Len(fn'.arr)].s = top_of(sc)
         /\ fn'.arr[Len(fn'.arr)].d = pass_dir
         /\ fn'.arr[Len(fn'.arr)].cells[1]
                = <<pass_pt[1] + first_top(sc) * pass_dir[1],
                    pass_pt[2] + first_top(sc) * pass_dir[2]>>

\* C24: every cal_score call adds its value to the total of the side whose
\* stone it scores; the value is 0 for a stone of a recorded shape or with no
\* fitting template, and otherwise the highest template score among the
\* windows of the call, the first window of that score recorded, plus the
\* bonus; the result is my total minus the enemy's total times ratio times
\* 0.1; my_list and enemy_list stay as they were.
C24_EvaluationTotals ==
    [][/\ fn'.my_list = fn.in_my
       /\ fn'.enemy_list = fn.in_enemy
       /\ pass_open =>
              /\ fn'.my_score = fn.my_score + (IF fn.pc = "mine" THEN fn'.last.value ELSE 0)
              /\ fn'.enemy_score = fn.enemy_score + (IF fn.pc = "enemy" THEN fn'.last.value ELSE 0)
              /\ Once(call_leaves, fit_scores)
       /\ fn'.pc = "done" =>
              /\ fn.enemy_score * fn.ratio
                     = 10 * (fn.my_score - fn'.result[1]) - fn'.result[2]
              /\ fn'.result[2] \in 0..9]_vars

\* A finished evaluation with both totals positive and a fraction of a
\* point in the result, two shapes recorded in the enemy's pass.
C24_Witness ==
    /\ fn.op = "score"
    /\ fn.pc = "done"
    /\ fn.my_score > 0
    /\ fn.enemy_score > 0
    /\ fn.result[2] # 0
    /\ Len(fn.arr) >= 2


\* C25: the score evaluation returns depends only on the sets of stones;
\* with the points of my_list in the opposite order it returns the same.
C25_OrderIrrelevant ==
    (fn.op = "score" /\ fn.pc = "done")
        => fn.result = evaluation(Reverse(fn.in_my), fn.in_enemy, fn.ratio)

\* C26: every value evaluation returns lies within -99999999..99999999, the
\* bounds of the window alpha_beta_search starts with.
C26_ScoreInsideWindow ==
    (fn.op = "score" /\ fn.pc = "done")
        => v_ge(fn.result, whole(-WINDOW)) /\ v_le(fn.result, whole(WINDOW))

----------------------------------------------------------------------------
(* A call that explores nothing, checked under SpecNega.                   *)

\* The alpha frame k was called with: the first call has the caller's, a
\* frame calls its child with the negation of its own beta.
called_alpha(k) == IF k = 1 THEN root.alpha ELSE v_neg(stack[k - 1].beta)

\* No candidate of the frame f was explored: its blank list is empty or
\* every point of it was passed over.
none_explored(f) ==
    \A k \in DOMAIN f.blank_list :
        nega_skip(f.blank_list[k], f.e1, f.e2, f.e3, f.is_me)

\* C28: a call that is not terminal (depth # 0, no five in a row on either
\* side) and explores no candidate returns the alpha it was called with.
C28_NothingExploredReturnsAlpha ==
    (/\ ret.kind # "none"
     /\ ~nega_terminal(ret.frame.e1, ret.frame.e2, ret.frame.depth)
     /\ none_explored(ret.frame))
        => /\ ret.kind = "done"
           /\ ret.value = called_alpha(Len(stack) + 1)

\* Such a call has returned, every point of its blank list passed over, and
\* the static evaluation of its position is another value.
C28_Witness ==
    /\ ret.kind = "done"
    /\ ~nega_terminal(ret.frame.e1, ret.frame.e2, ret.frame.depth)
    /\ none_explored(ret.frame)
    /\ ret.frame.blank_list # <<>>
    /\ ret.value # whole(-WINDOW)
    /\ ret.value # evaluation(ret.frame.e1, ret.frame.e2, root.ratio)

----------------------------------------------------------------------------
(* Termination of the search, checked under SpecLive.                      *)

\* The steps inside the loops and between the calls.
Advance ==
    \/ RootSkip
    \/ RootPlace
    \/ RootCollect
    \/ NegaSkip
    \/ NegaPlace
    \/ NegaCutoff
    \/ NegaRaise
    \/ NegaKeep
    \/ NegaFinish

\* A terminal call is about to return its evaluation: the guard of NegaLeaf.
AtLeaf ==
    /\ stack # <<>>
    /\ top.pc = "enter"
    /\ nega_terminal(heap[top.list1], heap[top.list2], top.depth)

\* A call that is not terminal is about to list its candidates: the guard
\* of NegaExpand.
AtExpand ==
    /\ stack # <<>>
    /\ top.pc = "enter"
    /\ ~nega_terminal(heap[top.list1], heap[top.list2], top.depth)

\* The interpreter runs the one thread of the search step by step: a step
\* that can be taken is taken.  This is weak fairness of every action; for
\* NegaLeaf, NegaExpand and RootFinish it is written out, with their guards
\* AtLeaf, AtExpand and Scored for ENABLED <<NegaLeaf>>_vars, ENABLED
\* <<NegaExpand>>_vars and ENABLED <<RootFinish>>_vars.
SpecLive ==
    /\ Init
    /\ [][Next]_vars
    /\ WF_vars(Advance)
    /\ ([]<>~AtLeaf \/ []<><<NegaLeaf>>_vars)
    /\ ([]<>~AtExpand \/ []<><<NegaExpand>>_vars)
    /\ ([]<>~Scored \/ []<><<RootFinish>>_vars)

\* The stones the search has put on its occupied list l3, the copy of the
\* caller's list3 it works on; before the first copy there is none.
stones_beyond == IF heap.l3 = <<>> THEN 0 ELSE Len(heap.l3) - Len(root.in3)

\* C27: alpha_beta_search with depth d >= 1 terminates, and at no moment of
\* the search does the occupied list hold more than d stones beyond the
\* caller's list3, whose length stays what it was.
C27_TerminatesWithinDepth ==
    /\ [](root.depth >= 1 => /\ stones_beyond <= root.depth
                              /\ Len(stack) <= root.depth
                              /\ Len(heap.list3) = Len(root.in3))
    /\ <>Done

\* The search is depth stones deep below the caller's position.
C27_Witness ==
    /\ root.depth = MaxDepth
    /\ stones_beyond = root.depth
    /\ Len(stack) = root.depth
    /\ top.pc = "enter"

----------------------------------------------------------------------------
(* The werewolf game: GameController.run_game, the replies of the agents  *)
(* and the random choices as inputs.                                       *)

MaxRound == 3      \* rounds played before the game is left

NoPlayer == "none"

MinSpeech == 20    \* characters a speech must have outside its stage directions

\* config["roles"] as player id -> role type: two tables of six players.
Configs == {
    [player1 |-> "werewolf", player2 |-> "werewolf", player3 |-> "witch",
     player4 |-> "hunter", player5 |-> "guard", player6 |-> "villager"],
    [player1 |-> "werewolf", player2 |-> "villager", player3 |-> "witch",
     player4 |-> "hunter", player5 |-> "guard", player6 |-> "villager"] }

Players == {"player1", "player2", "player3", "player4", "player5", "player6"}

Targets == Players \cup {NoPlayer}

\* BaseRole.is_wolf of the role of player p in game g.
is_wolf(g, p) == g.role[p] = "werewolf"

\* The living players of role type t, as night_phase lists them.
living(g, t) == {p \in Players : g.role[p] = t /\ g.is_alive[p]}

\* initialize_game: every player alive and counted, the roles as constructed.
initialize_game(config) ==
    [op |-> "game", pc |-> "check", phase |-> "init", current_round |-> 1,
     role |-> config,
     is_alive |-> [p \in Players |-> TRUE],
     werewolf |-> Cardinality({p \in Players : config[p] = "werewolf"}),
     villager |-> Cardinality({p \in Players : config[p] # "werewolf"}),
     has_medicine |-> TRUE, has_poison |-> TRUE,
     can_shoot |-> TRUE, death_confirmed |-> FALSE,
     protected_player |-> NoPlayer, last_protected_player |-> NoPlayer,
     guard_accepted |-> NoPlayer]

InitGame ==
    /\ SearchIdle
    /\ \E config \in Configs : fn = initialize_game(config)

\* check_game_over, on the counters.
check_game_over(g) == g.werewolf = 0 \/ g.werewolf >= g.villager

\* Guard.can_protect of the guard guard_id.
can_protect(g, guard_id, target_id) ==
    /\ g.is_alive[guard_id]
    /\ g.last_protected_player # target_id

\* Witch.can_save and Witch.can_poison of the witch witch_id;
\* used_medicine_this_round is False whenever night_phase asks, reset_round
\* following use_medicine in the same pass of the loop.
can_save(g, witch_id) == g.is_alive[witch_id] /\ g.has_medicine

can_poison(g, witch_id) == g.is_alive[witch_id] /\ g.has_poison

\* Hunter.can_use_gun.
can_use_gun(g) == g.death_confirmed /\ g.can_shoot

\* _handle_death.
handle_death(g, player_id) ==
    [g EXCEPT !.is_alive[player_id] = FALSE,
              !.werewolf = IF is_wolf(g, player_id) THEN @ - 1 ELSE @,
              !.villager = IF is_wolf(g, player_id) THEN @ ELSE @ - 1]

\* kill_player of a player of the game.
kill_player(g, player_id) ==
    [g EXCEPT !.is_alive[player_id] = FALSE,
              !.werewolf = IF is_wolf(g, player_id) THEN @ - 1 ELSE @,
              !.villager = IF is_wolf(g, player_id) THEN @ ELSE @ - 1]

\* One pass of the loop over night_deaths: the death, and the shot of a
\* hunter who can use the gun at a living target.
night_death(g, player_id, shot) ==
    LET dead == handle_death(g, player_id)
        confirmed == [dead EXCEPT !.death_confirmed = TRUE]
    IN  IF g.role[player_id] # "hunter" THEN dead
        ELSE IF can_use_gun(confirmed) /\ shot # NoPlayer /\ confirmed.is_alive[shot]
             THEN handle_death([confirmed EXCEPT !.can_shoot = FALSE], shot)
             ELSE confirmed

\* The guard's part of night_phase: the target accepted, if any.  Nothing
\* of the guard changes: night_phase asks can_protect and never calls
\* Guard.protect or Guard.reset_round.
guard_part(g, target_id) ==
    IF \E guard_id \in living(g, "guard") :
           target_id # NoPlayer /\ can_protect(g, guard_id, target_id)
    THEN target_id
    ELSE NoPlayer

\* The wolves' part: no victim in round 1, else one of the targets named.
wolf_part(g, target) ==
    IF living(g, "werewolf") # {} /\ g.current_round # 1 THEN target ELSE NoPlayer

\* The witch's part for the victim: what she does with her potions.
witch_part(g, victim_id, potion, target) ==
    IF victim_id = NoPlayer \/ living(g, "witch") = {} THEN "skip"
    ELSE IF potion = "save" /\ \E w \in living(g, "witch") : can_save(g, w) THEN "save"
    ELSE IF potion = "poison" /\ target # NoPlayer
            /\ \E w \in living(g, "witch") : can_poison(g, w) THEN "poison"
    ELSE "skip"

\* night_phase down to the list night_deaths, with the replies
\* protect_target, wolf_target and potion with poison_target.
night_choices(g, protect_target, wolf_target, potion, poison_target) ==
    LET accepted == guard_part(g, protect_target)
        victim_id == wolf_part(g, wolf_target)
        used == witch_part(g, victim_id, potion, poison_target)
        by_wolves == IF victim_id # NoPlayer /\ used # "save" /\ accepted = NoPlayer
                     THEN <<victim_id>> ELSE <<>>
        by_poison == IF used = "poison" THEN <<poison_target>> ELSE <<>>
    IN  [game |-> [g EXCEPT !.phase = "night",
                            !.guard_accepted = accepted,
                            !.has_medicine = IF used = "save" THEN FALSE ELSE @,
                            !.has_poison = IF used = "poison" THEN FALSE ELSE @],
         night_deaths |-> by_wolves \o by_poison]

\* The loop over night_deaths, shot1 and shot2 the replies of the hunter.
night_kills(g, night_deaths, shot1, shot2) ==
    LET g1 == IF Len(night_deaths) >= 1 THEN night_death(g, night_deaths[1], shot1) ELSE g
    IN  IF Len(night_deaths) >= 2 THEN night_death(g1, night_deaths[2], shot2) ELSE g1

\* The replies that are asked for: those of the living, a potion for a
\* victim, a shot for a dead hunter.
asked(g, t) == IF living(g, t) # {} THEN Targets ELSE {NoPlayer}

potions(g, wolf_target) ==
    IF wolf_part(g, wolf_target) # NoPlayer /\ living(g, "witch") # {}
    THEN {<<"save", NoPlayer>>, <<"skip", NoPlayer>>} \cup {<<"poison", t>> : t \in Players}
    ELSE {<<"skip", NoPlayer>>}

shots(g, night_deaths, k) ==
    IF Len(night_deaths) >= k /\ g.role[night_deaths[k]] = "hunter" /\ g.can_shoot
    THEN Targets ELSE {NoPlayer}

\* while not self.check_game_over(): the game goes into the next round or
\* to announce_winner.
LoopCheck ==
    /\ fn.op = "game"
    /\ fn.pc = "check"
    /\ fn' = [fn EXCEPT !.pc = IF check_game_over(fn) THEN "over" ELSE "night"]
    /\ UNCHANGED <<heap, stack, root, ret>>

NightPhase ==
    /\ fn.op = "game"
    /\ fn.pc = "night"
    /\ fn.current_round <= MaxRound
    /\ \E protect_target \in asked(fn, "guard"), wolf_target \in asked(fn, "werewolf") :
         \E potion \in potions(fn, wolf_target) :
           \E night \in {night_choices(fn, protect_target, wolf_target, potion[1], potion[2])} :
             \E shot1 \in shots(night.game, night.night_deaths, 1),
                shot2 \in shots(night.game, night.night_deaths, 2) :
                 fn' = [night_kills(night.game, night.night_deaths, shot1, shot2)
                        EXCEPT !.pc = "after_night"]
    /\ UNCHANGED <<heap, stack, root, ret>>

\* if self.check_game_over(): break
NightCheck ==
    /\ fn.op = "game"
    /\ fn.pc = "after_night"
    /\ fn' = [fn EXCEPT !.pc = IF check_game_over(fn) THEN "over" ELSE "day"]
    /\ UNCHANGED <<heap, stack, root, ret>>

\* day_phase: discussion_phase, then voting_phase.  run_game catches nothing,
\* so an exception raised in the day ends the run where it stands: phase
\* "day", nobody voted out, the round not counted.
\*   discussion_phase: the living players speak in turn; after a speech that
\*   _validate_speech finds too short (the speech is given by the number of
\*   its characters outside the stage directions in lenticular brackets) it
\*   calls self.logger.warning, a method GameLogger does not have
\*   (AttributeError).
\*   voting_phase: the living players vote in turn; own_agents tells whether
\*   they are played by the agents create_ai_agent makes or by agents whose
\*   votes all return.  WerewolfAgent.vote (ai_players.py) hands game_state to
\*   _build_wolf_vote_prompt, which takes no argument: the vote of a wolf
\*   played by the repository's agent raises TypeError.  A voter with three
\*   invalid votes gets a random living player other than himself, and when
\*   there is none (he is the only one alive) the same missing
\*   self.logger.warning is called.  Otherwise every vote names a living
\*   player, so with two or more alive one of them is put out (a tie is
\*   broken at random) and with nobody alive there is no vote; the round is
\*   then counted.
DayPhase ==
    /\ fn.op = "game"
    /\ fn.pc = "day"
    /\ LET alive_players == {p \in Players : fn.is_alive[p]}
           Speeches == {MinSpeech - 1, MinSpeech}
           validate_speech(clean_speech) == clean_speech >= MinSpeech
           vote_raises(p) == is_wolf(fn, p)
           raised == [fn EXCEPT !.pc = "raised", !.phase = "day"]
           next_round(g) == [g EXCEPT !.pc = "check", !.phase = "day",
                                      !.current_round = @ + 1]
       IN  \E speech \in [alive_players -> Speeches], own_agents \in BOOLEAN :
             IF \E p \in alive_players : ~validate_speech(speech[p])
             THEN fn' = raised
             ELSE IF own_agents /\ \E p \in alive_players : vote_raises(p)
             THEN fn' = raised
             ELSE IF Cardinality(alive_players) = 1
             THEN fn' = raised
             ELSE IF Cardinality(alive_players) >= 2
             THEN \E voted_out \in alive_players :
                      fn' = next_round(kill_player(fn, voted_out))
             ELSE fn' = next_round(fn)
    /\ UNCHANGED <<heap, stack, root, ret>>

\* run_game: the loop of check, night, check and day; nothing follows the
\* announcement of the winner (pc "over") or an exception (pc "raised").
NextGame ==
    \/ LoopCheck
    \/ NightPhase
    \/ NightCheck
    \/ DayPhase

SpecGame == InitGame /\ [][NextGame]_vars

----------------------------------------------------------------------------
(* Claims about the werewolf game, checked under SpecGame.                 *)

alive_wolves == {p \in Players : fn.is_alive[p] /\ is_wolf(fn, p)}

alive_others == {p \in Players : fn.is_alive[p] /\ ~is_wolf(fn, p)}

\* C29: after any sequence of night and day phases alive_count holds the
\* numbers of living wolves and living non-wolves, neither negative.
C29_CountsMatchAlive ==
    fn.op = "game" =>
        /\ fn.werewolf = Cardinality(alive_wolves)
        /\ fn.villager = Cardinality(alive_others)
        /\ fn.werewolf >= 0
        /\ fn.villager >= 0

\* C30: a target the living guard had accepted in the night of one round is
\* not accepted in the night of the next round.
C30_NoRepeatedProtection ==
    [][(/\ fn.op = "game"
        /\ fn.pc = "night"
        /\ fn.guard_accepted # NoPlayer)
           => fn'.guard_accepted # fn.guard_accepted]_vars

=============================================================================
